---- MODULE Spec2Model ----
(***************************************************************************)
(* Asset Administration Shell service of dpp-pilot-project                  *)
(* (backend/app/services/aas): the shell store, the submodel store and the  *)
(* operations that create, read, update, attach, detach and delete.         *)
(*                                                                          *)
(* Strings that the code takes apart (paths, textual representations) are   *)
(* sequences of tokens: a name (an idShort, an identifier, a list index) is *)
(* one token, and "/", " / ", "[" and "]" are tokens of their own.          *)
(***************************************************************************)
EXTENDS Integers, Sequences, FiniteSets, TLC

VARIABLES aas_asset, aas_submodel, uuid_seq, clock, result, in_flight

vars == <<aas_asset, aas_submodel, uuid_seq, clock, result, in_flight>>

(***************************************************************************)
(* Bounds of the model.                                                     *)
(***************************************************************************)
\* number of write requests (each reads the clock) a behaviour may hold
MaxClock == 3
\* most keys in the dict of one update request
MaxBatch == 2
\* most update-asset-metadata requests between their read and their commit
MaxInFlight == 1

(***************************************************************************)
(* Generic helpers.                                                         *)
(***************************************************************************)
Absent == "<absent>"

Range(f) == {f[x] : x \in DOMAIN f}

SeqsUpTo(S, n) == UNION {[1..k -> S] : k \in 0..n}

\* body applied to x, with x evaluated once, before body
Bind(x, body(_)) == CHOOSE out \in {body(v) : v \in {x}} : TRUE

RECURSIVE FlattenSeq(_)
FlattenSeq(ss) == IF ss = <<>> THEN <<>> ELSE Head(ss) \o FlattenSeq(Tail(ss))

(***************************************************************************)
(* basyx UUIDGenerator.generate_id: "urn:uuid:<uuid1>", never repeated.     *)
(***************************************************************************)
generate_id(n) == "urn:uuid:" \o ToString(n)

(***************************************************************************)
(* Element trees in their stored (JSON) form.                               *)
(***************************************************************************)
Null == [t |-> "null"]
Str(s) == [t |-> "str", s |-> s]
Langs(l) == [t |-> "langs", l |-> l]
LangString(lang, text) == [language |-> lang, text |-> text]

Property(idShort, valueType, value) ==
    [modelType |-> "Property", idShort |-> idShort, valueType |-> valueType,
     value |-> value, children |-> <<>>]
MultiLanguageProperty(idShort, value) ==
    [modelType |-> "MultiLanguageProperty", idShort |-> idShort,
     valueType |-> Absent, value |-> value, children |-> <<>>]
File(idShort, value) ==
    [modelType |-> "File", idShort |-> idShort, valueType |-> Absent,
     value |-> value, children |-> <<>>]
SubmodelElementCollection(idShort, children) ==
    [modelType |-> "SubmodelElementCollection", idShort |-> idShort,
     valueType |-> Absent, value |-> Null, children |-> children]
SubmodelElementList(idShort, children) ==
    [modelType |-> "SubmodelElementList", idShort |-> idShort,
     valueType |-> Absent, value |-> Null, children |-> children]
\* the children of an Entity are its statements
Entity(idShort, entityType, statements) ==
    [modelType |-> "Entity", idShort |-> idShort, valueType |-> Absent,
     value |-> Null, children |-> statements, entityType |-> entityType]
ReferenceElement(idShort, value) ==
    [modelType |-> "ReferenceElement", idShort |-> idShort,
     valueType |-> Absent, value |-> value, children |-> <<>>]
RangeElement(idShort, valueType, min, max) ==
    [modelType |-> "Range", idShort |-> idShort, valueType |-> valueType,
     value |-> Null, children |-> <<>>, min |-> min, max |-> max]
Blob(idShort, contentType, value) ==
    [modelType |-> "Blob", idShort |-> idShort, valueType |-> Absent,
     value |-> value, children |-> <<>>, contentType |-> contentType]

Submodel(id, idShort, kind, administration, elements) ==
    [modelType |-> "Submodel", id |-> id, idShort |-> idShort, kind |-> kind,
     administration |-> administration, submodelElements |-> elements]

ConceptDescription(id) == [modelType |-> "ConceptDescription", id |-> id]

NoAdministration == [none |-> TRUE]
AdministrativeInformation(version, templateId) ==
    [version |-> version, templateId |-> templateId]

(***************************************************************************)
(* Typed values.  A raw value (request input) or a typed value (in memory)  *)
(* is Null, Str(s), Int(i), Bool(b) or a list of items.                     *)
(***************************************************************************)
Int_(i) == [t |-> "int", i |-> i]
Bool(b) == [t |-> "bool", b |-> b]
List(l) == [t |-> "list", l |-> l]

\* integers whose decimal text the model reads back
IntTexts == (-9..99) \cup {2020, 2024}

\* texts int() accepts besides the canonical decimal text of an integer
NonCanonicalIntTexts == ("007" :> 7) @@ (" 5 " :> 5) @@ ("+5" :> 5)

Ok(v) == [v |-> v, ok |-> TRUE]
Fail(kind, msg) == [kind |-> kind, ok |-> FALSE, msg |-> msg]

\* Python int(value): ValueError for a text that is no integer, TypeError for a list
py_int(value) ==
    CASE value.t = "int" -> Ok(value.i)
      [] value.t = "bool" -> Ok(IF value.b THEN 1 ELSE 0)
      [] value.t = "str" ->
            IF \E i \in IntTexts : ToString(i) = value.s
            THEN Ok(CHOOSE i \in IntTexts : ToString(i) = value.s)
            ELSE IF value.s \in DOMAIN NonCanonicalIntTexts
                 THEN Ok(NonCanonicalIntTexts[value.s])
                 ELSE Fail("ValueError", "invalid literal for int()")
      [] OTHER -> Fail("TypeError", "int() argument")

\* Python str(value)
py_str(value) ==
    CASE value.t = "str" -> value.s
      [] value.t = "int" -> ToString(value.i)
      [] value.t = "bool" -> IF value.b THEN "True" ELSE "False"
      [] value.t = "null" -> "None"
      [] OTHER -> "[...]"

\* basyx datatypes.XSD_TYPE_CLASSES: the class a valueType tag is decoded to
XSD_TYPE_CLASSES ==
    ("xs:string" :> "str") @@ ("xs:integer" :> "int") @@ ("xs:int" :> "Int")
    @@ ("xs:long" :> "Long") @@ ("xs:unsignedLong" :> "UnsignedLong")
    @@ ("xs:double" :> "float") @@ ("xs:float" :> "Float")
    @@ ("xs:boolean" :> "bool") @@ ("xs:date" :> "Date")
    @@ ("xs:dateTime" :> "DateTime") @@ ("xs:anyURI" :> "AnyURI")
    @@ ("xs:decimal" :> "Decimal")

XSD_TYPE_NAMES ==
    [c \in Range(XSD_TYPE_CLASSES) |->
        CHOOSE n \in DOMAIN XSD_TYPE_CLASSES : XSD_TYPE_CLASSES[n] = c]

IntegerClasses == {"int", "Int", "Long", "UnsignedLong"}

\* basyx datatypes.from_xsd: the typed value of a stored text
from_xsd(text, class) ==
    CASE class \in IntegerClasses -> Int_(py_int(Str(text)).v)
      [] class = "bool" -> Bool(text = "true")
      [] class \in {"float", "Float"} -> [t |-> "float", s |-> text]
      [] class = "Date" -> [t |-> "date", s |-> text]
      [] class = "DateTime" -> [t |-> "datetime", s |-> text]
      [] OTHER -> Str(text)

\* a stored text written with Python's str(): "True" and "False" for a bool
xsd_repr_python_str(value) ==
    CASE value.t = "int" -> ToString(value.i)
      [] value.t = "bool" -> IF value.b THEN "True" ELSE "False"
      [] OTHER -> value.s

\* basyx datatypes.xsd_repr: the stored text of a typed value
xsd_repr(value) ==
    CASE value.t = "int" -> ToString(value.i)
      [] value.t = "bool" -> IF value.b THEN "true" ELSE "false"
      [] OTHER -> value.s

(***************************************************************************)
(* The serialization codec: deserialize_aas_from_json builds the in-memory  *)
(* tree (typed Property values, value_type classes, a generated id_short    *)
(* for every child of a SubmodelElementList); serialize_aas_to_json writes  *)
(* the stored form back (texts, type tags, no idShort under a list).        *)
(***************************************************************************)
generated_id_short(k) == "generated_submodel_list_hack_" \o ToString(k)

\* the decoder's language map: one text per language, the last one written
RECURSIVE lang_string_set(_)
lang_string_set(l) ==
    IF l = <<>> THEN <<>>
    ELSE LET n == Len(l)
             before == lang_string_set(SubSeq(l, 1, n - 1))
         IN  IF \E i \in 1..Len(before) : before[i].language = l[n].language
             THEN [i \in 1..Len(before) |->
                    IF before[i].language = l[n].language THEN l[n] ELSE before[i]]
             ELSE Append(before, l[n])

RECURSIVE element_from_json(_, _, _)
element_from_json(e, parent_is_list, k) ==
    [modelType |-> e.modelType,
     id_short |-> IF parent_is_list THEN generated_id_short(k) ELSE e.idShort,
     value_type |-> IF e.modelType = "Property"
                    THEN XSD_TYPE_CLASSES[e.valueType] ELSE Absent,
     value |-> IF e.modelType = "Property" /\ e.value # Null
               THEN from_xsd(e.value.s, XSD_TYPE_CLASSES[e.valueType])
               ELSE IF e.modelType = "MultiLanguageProperty" /\ e.value # Null
               THEN Langs(lang_string_set(e.value.l))
               ELSE e.value,
     children |-> [i \in 1..Len(e.children) |->
                    element_from_json(e.children[i],
                        e.modelType = "SubmodelElementList", i - 1)]]

RECURSIVE element_to_json(_, _)
element_to_json(e, parent_is_list) ==
    [modelType |-> e.modelType,
     idShort |-> IF parent_is_list THEN Absent ELSE e.id_short,
     valueType |-> IF e.modelType = "Property"
                   THEN XSD_TYPE_NAMES[e.value_type] ELSE Absent,
     value |-> CASE e.modelType = "Property" /\ e.value # Null ->
                        Str(xsd_repr(e.value))
                 \* "if obj.value:" of the encoder: an empty language list is left out
                 [] e.modelType = "MultiLanguageProperty" /\ e.value # Null
                        /\ e.value.l = <<>> -> Null
                 [] OTHER -> e.value,
     children |-> [i \in 1..Len(e.children) |->
                    element_to_json(e.children[i],
                        e.modelType = "SubmodelElementList")]]

deserialize_aas_from_json(data) ==
    IF data.modelType = "Submodel"
    THEN [modelType |-> "Submodel", id |-> data.id, id_short |-> data.idShort,
          kind |-> data.kind, administration |-> data.administration,
          submodel_element |-> [i \in 1..Len(data.submodelElements) |->
                element_from_json(data.submodelElements[i], FALSE, i - 1)]]
    ELSE data

serialize_aas_to_json(obj) ==
    IF obj.modelType = "Submodel"
    THEN Submodel(obj.id, obj.id_short, obj.kind, obj.administration,
            [i \in 1..Len(obj.submodel_element) |->
                element_to_json(obj.submodel_element[i], FALSE)])
    ELSE obj

(***************************************************************************)
(* The template catalog: the AASX packages under submodel_templates.  The   *)
(* packages are data files; these two stand for a package with one Submodel *)
(* and a package with two Submodels.                                        *)
(***************************************************************************)
T1 == "https://admin-shell.io/T1"
T2 == "https://admin-shell.io/T2"
T2b == "https://admin-shell.io/T2b"
TUnknown == "https://admin-shell.io/unknown"

\* the templates of the catalog all carry an idShort, as the IDTA templates do
NameplateTemplate ==
    Submodel(T1, "Nameplate", "Template", NoAdministration,
        << Property("SerialNumber", "xs:string", Null),
           Property("YearOfConstruction", "xs:integer", Str("2020")),
           MultiLanguageProperty("ManufacturerName",
                Langs(<<LangString("en", "ACME"), LangString("de", "ACME GmbH")>>)),
           SubmodelElementCollection("ContactInformation",
                << Property("Street", "xs:string", Str("Main St")) >>),
           SubmodelElementCollection("Address",
                << Property("Street", "xs:string", Null) >>),
           SubmodelElementList("Phones",
                << Property(Absent, "xs:string", Str("555")) >>),
           File("Logo", Str("/aasx/logo.png")) >>)

PackageFiles ==
    << [template_path |-> "/templates/idta/nameplate.aasx",
        template_name |-> "nameplate.aasx", category |-> "idta",
        objects |-> << ConceptDescription("cd1"), NameplateTemplate >>],
       [template_path |-> "/templates/idta/pair.aasx",
        template_name |-> "pair.aasx", category |-> "idta",
        objects |-> << Submodel(T2, "TechnicalData", "Template",
                           AdministrativeInformation("1", Absent),
                           << Property("MaxSpeed", "xs:integer", Null) >>),
                       Submodel(T2b, "Documentation", "Template",
                           AdministrativeInformation("1", Absent), <<>>) >>] >>

\* the objects of a package, read into memory
import_aasx_package(package_path) ==
    LET p == CHOOSE q \in Range(PackageFiles) : q.template_path = package_path
    IN  [i \in 1..Len(p.objects) |-> deserialize_aas_from_json(p.objects[i])]

isSubmodel(obj) == obj.modelType = "Submodel"

\* one entry per package that holds a Submodel, described by its first Submodel
list_template_packages ==
    LET entry(p) ==
            LET submodels == SelectSeq(import_aasx_package(p.template_path), isSubmodel)
            IN  IF submodels = <<>> THEN <<>>
                ELSE << [template_id |-> submodels[1].id,
                         template_name |-> p.template_name,
                         category |-> p.category,
                         template_path |-> p.template_path,
                         id_short |-> submodels[1].id_short] >>
    IN  FlattenSeq([i \in 1..Len(PackageFiles) |-> entry(PackageFiles[i])])

\* {tmpl["template_id"]: tmpl for tmpl in templates}: the last entry of an id wins
template_map ==
    LET templates == list_template_packages
        ids == {templates[i].template_id : i \in 1..Len(templates)}
        last(id) == CHOOSE i \in 1..Len(templates) :
                        /\ templates[i].template_id = id
                        /\ \A j \in (i+1)..Len(templates) : templates[j].template_id # id
    IN  [id \in ids |-> templates[last(id)]]

(***************************************************************************)
(* The two tables (AASAsset, AASSubmodel) and what a request returns.       *)
(***************************************************************************)
NoRecord == [none |-> TRUE]

session_get(table, id) == IF id \in DOMAIN table THEN table[id] ELSE NoRecord

Record(id, data, created_at, updated_at) ==
    [id |-> id, data |-> data, created_at |-> created_at, updated_at |-> updated_at]

Returned(value) == [status |-> "ok", value |-> value]
\* an exception: its class, the fixed part of its message and the value it names
Raised(kind, msg, about) == [status |-> kind, msg |-> msg, about |-> about]

EmptyDict == [k \in {} |-> ""]

dict_get(d, key, default) == IF key \in DOMAIN d THEN d[key] ELSE default

\* a ModelReference to a submodel, as it is serialized
ModelReference(id) == [type |-> "ModelReference", keys |-> id]

(***************************************************************************)
(* instantiate_submodel                                                     *)
(***************************************************************************)
instantiate_submodel_keeps_template_kind(template, new_id) ==
    [template EXCEPT
        !.administration =
            [(IF template.administration = NoAdministration
              THEN AdministrativeInformation(Absent, Absent)
              ELSE template.administration) EXCEPT !.templateId = template.id],
        !.id = new_id]

instantiate_submodel(template, new_id) ==
    [template EXCEPT
        !.administration =
            [(IF template.administration = NoAdministration
              THEN AdministrativeInformation(Absent, Absent)
              ELSE template.administration) EXCEPT !.templateId = template.id],
        !.id = new_id,
        !.kind = "Instance"]

\* the loop over the requested template ids of create and attach: every Submodel
\* of every package is instantiated under the next generated id; an id that is
\* not in the catalog ends the request
RECURSIVE instantiate_templates(_, _)
instantiate_templates(template_ids, n) ==
    IF template_ids = <<>> THEN [error |-> Absent, instances |-> <<>>, n |-> n]
    ELSE LET tmpl_id == Head(template_ids) IN
         IF tmpl_id \notin DOMAIN template_map
         THEN [error |-> tmpl_id, instances |-> <<>>, n |-> n]
         ELSE Bind(SelectSeq(import_aasx_package(template_map[tmpl_id].template_path),
                             isSubmodel),
              LAMBDA objs :
                Bind(instantiate_templates(Tail(template_ids), n + Len(objs)),
                LAMBDA rest :
                  IF rest.error # Absent THEN rest
                  ELSE [error |-> Absent,
                        instances |->
                            [i \in 1..Len(objs) |->
                                Bind(objs[i], LAMBDA template :
                                    instantiate_submodel(template, generate_id(n + i)))]
                            \o rest.instances,
                        n |-> rest.n]))

\* session.add of one new AASSubmodel row per instance
add_submodel_records(table, instances, now) ==
    LET ids == {instances[i].id : i \in 1..Len(instances)}
        of(id) == CHOOSE i \in 1..Len(instances) : instances[i].id = id
    IN  [id \in ids |->
            Record(id, serialize_aas_to_json(instances[of(id)]), now, now)] @@ table

(***************************************************************************)
(* create_asset_from_templates                                              *)
(***************************************************************************)
create_asset_from_templates(selected_template_ids, asset_data, asset, submodel, n, now) ==
    LET new_aas_id == generate_id(n + 1)
        aas_shell(submodel_refs) ==
            [modelType |-> "AssetAdministrationShell",
             id |-> new_aas_id,
             assetInformation |->
                [assetKind |-> "Instance",
                 globalAssetId |->
                    dict_get(asset_data, "global_asset_id", "urn:default:global")],
             description |->
                IF "description" \in DOMAIN asset_data
                THEN <<LangString("en", asset_data["description"])>> ELSE <<>>,
             displayName |->
                IF "display_name" \in DOMAIN asset_data
                THEN <<LangString("en", asset_data["display_name"])>> ELSE <<>>,
             submodels |-> submodel_refs]
        store(inst) ==
            IF inst.error # Absent
            THEN [asset |-> asset, submodel |-> submodel, n |-> inst.n,
                  ret |-> Raised("ValueError", "Template not found", <<inst.error>>)]
            ELSE Bind(serialize_aas_to_json(aas_shell(
                        {inst.instances[i].id : i \in 1..Len(inst.instances)})),
                 LAMBDA aas_json :
                    [asset |-> (new_aas_id :> Record(new_aas_id, aas_json, now, now))
                                @@ asset,
                     submodel |-> add_submodel_records(submodel, inst.instances, now),
                     n |-> inst.n,
                     ret |-> Returned(aas_json)])
    IN  Bind(instantiate_templates(selected_template_ids, n + 1), store)

(***************************************************************************)
(* get_asset_by_id.  The reply lists the resolved submodels in the order    *)
(* in which the shell's reference set is iterated, an order Python does not *)
(* fix; the model keeps the entries of the list as a set.                   *)
(***************************************************************************)
resolve_reference_drops_missing(submodel_id, submodel) ==
    LET sub_record == session_get(submodel, submodel_id)
    IN  IF sub_record # NoRecord
        THEN <<serialize_aas_to_json(deserialize_aas_from_json(sub_record.data))>>
        ELSE <<>>

resolve_reference(submodel_id, submodel) ==
    LET sub_record == session_get(submodel, submodel_id)
    IN  IF sub_record # NoRecord
        THEN <<serialize_aas_to_json(deserialize_aas_from_json(sub_record.data))>>
        ELSE <<ModelReference(submodel_id)>>

get_asset_by_id_unresolved(aas_id, asset, submodel) ==
    LET asset_record == session_get(asset, aas_id)
        aas_shell == deserialize_aas_from_json(asset_record.data)
    IN  IF asset_record = NoRecord
        THEN Raised("ValueError", "No asset found", <<aas_id>>)
        ELSE Returned([aas_shell EXCEPT !.submodels =
                        {ModelReference(ref) : ref \in aas_shell.submodels}])

get_asset_by_id(aas_id, asset, submodel) ==
    LET asset_record == session_get(asset, aas_id)
        aas_shell == deserialize_aas_from_json(asset_record.data)
        resolved_submodels ==
            UNION {Range(resolve_reference(ref, submodel)) : ref \in aas_shell.submodels}
    IN  IF asset_record = NoRecord
        THEN Raised("ValueError", "No asset found", <<aas_id>>)
        ELSE Returned([aas_shell EXCEPT !.submodels = resolved_submodels])

(***************************************************************************)
(* update_asset_metadata.  asset_record is the row as the request read it.  *)
(***************************************************************************)
update_asset_metadata(asset_record, aas_id, new_metadata, asset, submodel, now) ==
    LET aas_shell == deserialize_aas_from_json(asset_record.data)
        updated ==
            [aas_shell EXCEPT
                !.assetInformation.globalAssetId =
                    dict_get(new_metadata, "global_asset_id", @),
                !.description =
                    IF "description" \in DOMAIN new_metadata
                    THEN <<LangString("en", new_metadata["description"])>> ELSE @,
                !.displayName =
                    IF "display_name" \in DOMAIN new_metadata
                    THEN <<LangString("en", new_metadata["display_name"])>> ELSE @]
        updated_json == serialize_aas_to_json(updated)
    IN  IF asset_record = NoRecord
        THEN [asset |-> asset, submodel |-> submodel,
              ret |-> Raised("ValueError", "No asset found", <<aas_id>>)]
        ELSE [asset |-> [asset EXCEPT ![aas_id] =
                            Record(aas_id, updated_json, asset_record.created_at, now)],
              submodel |-> submodel,
              ret |-> Returned(updated_json)]

(***************************************************************************)
(* attach_submodels_to_asset                                                *)
(***************************************************************************)
attach_submodels_to_asset(asset_record, aas_id, template_ids, asset, submodel, n, now) ==
    LET aas_shell == deserialize_aas_from_json(asset_record.data)
        store(inst) ==
            IF inst.error # Absent
            THEN [asset |-> asset, submodel |-> submodel, n |-> inst.n,
                  ret |-> Raised("ValueError", "Template not found", <<inst.error>>)]
            ELSE Bind(serialize_aas_to_json(
                        [aas_shell EXCEPT !.submodels =
                            @ \cup {inst.instances[i].id : i \in 1..Len(inst.instances)}]),
                 LAMBDA updated_shell_json :
                    [asset |-> [asset EXCEPT ![aas_id] =
                                Record(aas_id, updated_shell_json,
                                       asset_record.created_at, now)],
                     submodel |-> add_submodel_records(submodel, inst.instances, now),
                     n |-> inst.n,
                     ret |-> Returned(updated_shell_json)])
    IN  IF asset_record = NoRecord
        THEN [asset |-> asset, submodel |-> submodel, n |-> n,
              ret |-> Raised("ValueError", "No AAS found", <<aas_id>>)]
        ELSE Bind(instantiate_templates(template_ids, n), store)

(***************************************************************************)
(* remove_submodel_from_asset                                               *)
(***************************************************************************)
session_delete_keeps_row(table, ids) == table

session_delete(table, ids) == [id \in DOMAIN table \ ids |-> table[id]]

\* a detach that deletes the submodel row before it looks at the references
remove_submodel_deletes_first(asset_record, aas_id, submodel_id, asset, submodel, now) ==
    LET aas_shell == deserialize_aas_from_json(asset_record.data)
        updated_shell_json ==
            serialize_aas_to_json(
                [aas_shell EXCEPT !.submodels = @ \ {submodel_id}])
    IN  IF asset_record = NoRecord
        THEN [asset |-> asset, submodel |-> submodel,
              ret |-> Raised("ValueError", "No AAS found", <<aas_id>>)]
        ELSE IF submodel_id \notin aas_shell.submodels
        THEN [asset |-> asset, submodel |-> session_delete(submodel, {submodel_id}),
              ret |-> Raised("ValueError", "Submodel is not referenced by AAS", <<submodel_id>>)]
        ELSE [asset |-> [asset EXCEPT ![aas_id] =
                            Record(aas_id, updated_shell_json,
                                   asset_record.created_at, now)],
              submodel |-> session_delete(submodel, {submodel_id}),
              ret |-> Returned(updated_shell_json)]

remove_submodel_keeps_reference(asset_record, aas_id, submodel_id, asset, submodel, now) ==
    LET aas_shell == deserialize_aas_from_json(asset_record.data)
    IN  IF asset_record = NoRecord
        THEN [asset |-> asset, submodel |-> submodel,
              ret |-> Raised("ValueError", "No AAS found", <<aas_id>>)]
        ELSE IF submodel_id \notin aas_shell.submodels
        THEN [asset |-> asset, submodel |-> submodel,
              ret |-> Raised("ValueError", "Submodel is not referenced by AAS", <<submodel_id>>)]
        ELSE [asset |-> [asset EXCEPT ![aas_id] =
                            Record(aas_id, serialize_aas_to_json(aas_shell),
                                   asset_record.created_at, now)],
              submodel |-> session_delete(submodel, {submodel_id}),
              ret |-> Returned(serialize_aas_to_json(aas_shell))]

remove_submodel_from_asset(asset_record, aas_id, submodel_id, asset, submodel, now) ==
    LET aas_shell == deserialize_aas_from_json(asset_record.data)
        updated_shell_json ==
            serialize_aas_to_json(
                [aas_shell EXCEPT !.submodels = @ \ {submodel_id}])
    IN  IF asset_record = NoRecord
        THEN [asset |-> asset, submodel |-> submodel,
              ret |-> Raised("ValueError", "No AAS found", <<aas_id>>)]
        ELSE IF submodel_id \notin aas_shell.submodels
        THEN [asset |-> asset, submodel |-> submodel,
              ret |-> Raised("ValueError", "Submodel is not referenced by AAS", <<submodel_id>>)]
        ELSE [asset |-> [asset EXCEPT ![aas_id] =
                            Record(aas_id, updated_shell_json,
                                   asset_record.created_at, now)],
              submodel |-> session_delete(submodel, {submodel_id}),
              ret |-> Returned(updated_shell_json)]

(***************************************************************************)
(* delete_asset                                                             *)
(***************************************************************************)
delete_asset(asset_record, aas_id, asset, submodel) ==
    LET aas_shell == deserialize_aas_from_json(asset_record.data)
        submodel_ids == aas_shell.submodels
    IN  IF asset_record = NoRecord
        THEN [asset |-> asset, submodel |-> submodel,
              ret |-> Raised("ValueError", "No asset found", <<aas_id>>)]
        ELSE [asset |-> session_delete(asset, {aas_id}),
              submodel |-> session_delete(submodel, submodel_ids),
              ret |-> Returned(Null)]

(***************************************************************************)
(* Token strings: the Python string operations update_submodel_data uses.   *)
(***************************************************************************)
\* sep.join(parts)
RECURSIVE str_join(_, _)
str_join(parts, sep) ==
    IF parts = <<>> THEN <<>>
    ELSE IF Len(parts) = 1 THEN parts[1]
    ELSE parts[1] \o <<sep>> \o str_join(Tail(parts), sep)

\* s.split(sep)
RECURSIVE str_split(_, _)
str_split(s, sep) ==
    IF \A i \in 1..Len(s) : s[i] # sep THEN <<s>>
    ELSE LET i == CHOOSE j \in 1..Len(s) :
                    s[j] = sep /\ \A k \in 1..(j - 1) : s[k] # sep
         IN  <<SubSeq(s, 1, i - 1)>> \o str_split(SubSeq(s, i + 1, Len(s)), sep)

\* s.split(sep, 1)
str_split_once(s, sep) ==
    IF \A i \in 1..Len(s) : s[i] # sep THEN <<s>>
    ELSE LET i == CHOOSE j \in 1..Len(s) :
                    s[j] = sep /\ \A k \in 1..(j - 1) : s[k] # sep
         IN  <<SubSeq(s, 1, i - 1), SubSeq(s, i + 1, Len(s))>>

str_contains(s, tok) == \E i \in 1..Len(s) : s[i] = tok

\* s.replace("//", "/"): left to right, without overlap
RECURSIVE replace_double_slash(_)
replace_double_slash(s) ==
    IF Len(s) < 2 THEN s
    ELSE IF s[1] = "/" /\ s[2] = "/"
         THEN <<"/">> \o replace_double_slash(SubSeq(s, 3, Len(s)))
         ELSE <<s[1]>> \o replace_double_slash(Tail(s))

\* s.replace("[", "/").replace("]", "")
RECURSIVE normalize_brackets(_)
normalize_brackets(s) ==
    IF s = <<>> THEN <<>>
    ELSE (CASE s[1] = "[" -> <<"/">>
            [] s[1] = "]" -> <<>>
            [] OTHER -> <<s[1]>>) \o normalize_brackets(Tail(s))

str_endswith(s, suffix) ==
    /\ Len(suffix) <= Len(s)
    /\ SubSeq(s, Len(s) - Len(suffix) + 1, Len(s)) = suffix

(***************************************************************************)
(* Insertion-ordered dicts: sequences of <<key, value>>.                    *)
(***************************************************************************)
dict_has(d, key) == \E i \in 1..Len(d) : d[i][1] = key

dict_lookup(d, key) == d[CHOOSE i \in 1..Len(d) : d[i][1] = key][2]

dict_set(d, key, value) ==
    IF dict_has(d, key)
    THEN [i \in 1..Len(d) |-> IF d[i][1] = key THEN <<key, value>> ELSE d[i]]
    ELSE Append(d, <<key, value>>)

RECURSIVE dict_from_items(_)
dict_from_items(items) ==
    IF items = <<>> THEN <<>>
    ELSE LET n == Len(items)
         IN  dict_set(dict_from_items(SubSeq(items, 1, n - 1)),
                      items[n][1], items[n][2])

(***************************************************************************)
(* The in-memory tree: an element is addressed by the child indices that    *)
(* lead to it from the submodel.                                            *)
(***************************************************************************)
Containers == {"SubmodelElementCollection", "SubmodelElementList"}

\* basyx walk_submodel: post order, into collections and lists only
RECURSIVE walk(_, _)
walk(children, prefix) ==
    FlattenSeq([i \in 1..Len(children) |->
        (IF children[i].modelType \in Containers
         THEN walk(children[i].children, Append(prefix, i)) ELSE <<>>)
        \o << Append(prefix, i) >>])

walk_submodel(sub_obj) == walk(sub_obj.submodel_element, <<>>)

RECURSIVE element_at(_, _)
element_at(children, addr) ==
    IF Len(addr) = 1 THEN children[addr[1]]
    ELSE element_at(children[addr[1]].children, Tail(addr))

RECURSIVE set_value_at(_, _, _)
set_value_at(children, addr, value) ==
    IF Len(addr) = 1
    THEN [children EXCEPT ![addr[1]].value = value]
    ELSE [children EXCEPT ![addr[1]].children =
                set_value_at(@, Tail(addr), value)]

\* the id_short chain from the submodel down to the element, "/"-joined
id_short_path(sub_obj, addr) ==
    str_join(<< <<sub_obj.id_short>> >> \o
             [i \in 1..Len(addr) |->
                <<element_at(sub_obj.submodel_element, SubSeq(addr, 1, i)).id_short>>],
             "/")

\* basyx Referable.__repr__: Class[<submodel id> / a / list[0] / b]; the child
\* of a list is written as the list's id_short with its index, and the list
\* itself is not written again
RECURSIVE repr_segments(_, _)
repr_segments(sub_obj, addr) ==
    IF addr = <<>> THEN << <<sub_obj.id>> >>
    ELSE LET n == Len(addr)
             parent == SubSeq(addr, 1, n - 1)
         IN  IF parent # <<>> /\
                element_at(sub_obj.submodel_element, parent).modelType
                    = "SubmodelElementList"
             THEN repr_segments(sub_obj, SubSeq(addr, 1, n - 2)) \o
                  << <<element_at(sub_obj.submodel_element, parent).id_short,
                       "[", ToString(addr[n] - 1), "]">> >>
             ELSE repr_segments(sub_obj, parent) \o
                  << <<element_at(sub_obj.submodel_element, addr).id_short>> >>

str_element(sub_obj, addr) ==
    <<element_at(sub_obj.submodel_element, addr).modelType, "[">>
    \o str_join(repr_segments(sub_obj, addr), " / ") \o <<"]">>

(***************************************************************************)
(* The path maps of update_submodel_data.                                   *)
(***************************************************************************)
\* element_map: id_short path -> element, in walk order
element_map(sub_obj) ==
    LET w == walk_submodel(sub_obj)
    IN  dict_from_items([i \in 1..Len(w) |-> <<id_short_path(sub_obj, w[i]), w[i]>>])

\* string_rep_map: id_short path -> str(element)
string_rep_map(sub_obj) ==
    LET w == walk_submodel(sub_obj)
    IN  dict_from_items([i \in 1..Len(w) |->
            <<id_short_path(sub_obj, w[i]), str_element(sub_obj, w[i])>>])

\* the path cut out of str(element): the text between the first "[" and the
\* first "]" of the last part, its " / " turned into "/"
clean_path(element_str) ==
    LET parts == str_split(element_str, " / ")
        n == Len(parts)
        first == IF str_contains(parts[1], "[")
                 THEN str_split_once(parts[1], "[")[2] ELSE parts[1]
        last == IF str_contains(parts[n], "]")
                THEN str_split(parts[n], "]")[1] ELSE parts[n]
        cleaned == [i \in 1..n |-> IF i = 1 THEN first
                                   ELSE IF i = n THEN last ELSE parts[i]]
    IN  replace_double_slash(str_join(cleaned, "/"))

full_path(sub_obj, path) ==
    IF sub_obj.id_short # Absent
    THEN IF path # <<>> THEN <<sub_obj.id_short, "/", sub_obj.id, "/">> \o path
         ELSE <<sub_obj.id_short>>
    ELSE path

simple_path(sub_obj, path) ==
    IF sub_obj.id_short # Absent
    THEN IF path # <<>> THEN <<sub_obj.id_short, "/">> \o path
         ELSE <<sub_obj.id_short>>
    ELSE path

\* the entries of string_rep_map that hold " / " and split into two parts or more
indexed_entries(sub_obj) ==
    SelectSeq(string_rep_map(sub_obj),
        LAMBDA kv : str_contains(kv[2], " / ") /\ Len(str_split(kv[2], " / ")) >= 2)

\* indexed_paths: full external path -> id_short path.  The loop that strips
\* blanks and a closing bracket rebinds its own variable and changes no key.
indexed_paths(sub_obj) ==
    LET e == indexed_entries(sub_obj)
    IN  dict_from_items([i \in 1..Len(e) |->
            <<full_path(sub_obj, clean_path(e[i][2])), e[i][1]>>])

\* simplified_indexed_paths: simplified external path -> id_short path
simplified_indexed_paths(sub_obj) ==
    LET e == indexed_entries(sub_obj)
    IN  dict_from_items([i \in 1..Len(e) |->
            <<simple_path(sub_obj, clean_path(e[i][2])), e[i][1]>>])

\* the three maps update_submodel_data builds before it reads the updates
path_maps(sub_obj) ==
    [element_map |-> element_map(sub_obj),
     indexed_paths |-> indexed_paths(sub_obj),
     simplified_indexed_paths |-> simplified_indexed_paths(sub_obj)]

(***************************************************************************)
(* Path resolution: the five approaches of update_submodel_data, each       *)
(* giving <<target id_short path>> or <<>>.  maps is path_maps(sub_obj).    *)
(***************************************************************************)
direct_lookup(maps, frontend_path) ==
    IF dict_has(maps.element_map, frontend_path) THEN <<frontend_path>> ELSE <<>>

simplified_lookup(maps, frontend_path) ==
    IF dict_has(maps.simplified_indexed_paths, frontend_path)
    THEN <<dict_lookup(maps.simplified_indexed_paths, frontend_path)>> ELSE <<>>

full_lookup(maps, frontend_path) ==
    IF dict_has(maps.indexed_paths, frontend_path)
    THEN <<dict_lookup(maps.indexed_paths, frontend_path)>> ELSE <<>>

\* the first key of d whose bracket-free form equals that of the supplied path
first_normalized(d, frontend_path) ==
    LET hits == SelectSeq(d, LAMBDA kv :
                    normalize_brackets(kv[1]) = normalize_brackets(frontend_path))
    IN  IF hits = <<>> THEN <<>> ELSE <<hits[1][2]>>

normalized_lookup(maps, frontend_path) ==
    LET simple == first_normalized(maps.simplified_indexed_paths, frontend_path)
    IN  IF simple # <<>> THEN simple
        ELSE first_normalized(maps.indexed_paths, frontend_path)

\* the basename matched against the last key of the element map that ends
\* in it
basename_lookup_last(maps, frontend_path) ==
    IF ~str_contains(frontend_path, "/") THEN <<>>
    ELSE LET parts == str_split(frontend_path, "/")
             basename == parts[Len(parts)]
             hits == SelectSeq(maps.element_map, LAMBDA kv :
                        str_endswith(kv[1], <<"/">> \o basename))
         IN  IF hits = <<>> THEN <<>> ELSE <<hits[Len(hits)][1]>>

basename_lookup(maps, frontend_path) ==
    IF ~str_contains(frontend_path, "/") THEN <<>>
    ELSE LET parts == str_split(frontend_path, "/")
             basename == parts[Len(parts)]
             hits == SelectSeq(maps.element_map, LAMBDA kv :
                        str_endswith(kv[1], <<"/">> \o basename))
         IN  IF hits = <<>> THEN <<>> ELSE <<hits[1][1]>>

first_match(a, b) == IF a # <<>> THEN a ELSE b

resolve_path_basename_first(maps, frontend_path) ==
    first_match(direct_lookup(maps, frontend_path),
    first_match(basename_lookup(maps, frontend_path),
    first_match(simplified_lookup(maps, frontend_path),
    first_match(full_lookup(maps, frontend_path),
                normalized_lookup(maps, frontend_path)))))

resolve_path(maps, frontend_path) ==
    first_match(direct_lookup(maps, frontend_path),
    first_match(simplified_lookup(maps, frontend_path),
    first_match(full_lookup(maps, frontend_path),
    first_match(normalized_lookup(maps, frontend_path),
                basename_lookup(maps, frontend_path)))))

(***************************************************************************)
(* convert_value (services/aas/utils.py).  expected_type is a class (the    *)
(* value_type of a Property) or an XSD tag.                                 *)
(***************************************************************************)
Float_(text) == [t |-> "float", s |-> text]
Date_(iso) == [t |-> "date", s |-> iso]
DateTime_(iso) == [t |-> "datetime", s |-> iso]

PythonTypes == {"int", "float", "bool", "str"}
BasyxTypes == {"Int", "Long", "UnsignedLong", "Float", "Date", "DateTime",
               "AnyURI", "Decimal"}
\* Double is float, Boolean is bool and String is str in basyx datatypes
Double == "float"
Boolean == "bool"

get_basyx_type(xsd_type) ==
    LET type_mapping ==
            ("xs:string" :> "str") @@ ("xs:integer" :> "Int") @@ ("xs:long" :> "Long")
            @@ ("xs:unsignedLong" :> "UnsignedLong") @@ ("xs:double" :> Double)
            @@ ("xs:float" :> "Float") @@ ("xs:boolean" :> Boolean)
            @@ ("xs:date" :> "Date") @@ ("xs:dateTime" :> "DateTime")
            @@ ("xs:anyURI" :> "AnyURI")
    IN  IF xsd_type \in DOMAIN type_mapping THEN type_mapping[xsd_type] ELSE Absent

Int32Min == -2147483647 - 1
Int32Max == 2147483647

\* float(value) for the texts of the model: the repr of the parsed number
FloatTexts == ("1.5" :> "1.5") @@ ("2" :> "2.0") @@ ("1e3" :> "1000.0")

py_float(value) ==
    CASE value.t = "float" -> Ok(value.s)
      [] value.t = "int" -> Ok(ToString(value.i) \o ".0")
      [] value.t = "bool" -> Ok(IF value.b THEN "1.0" ELSE "0.0")
      [] value.t = "str" ->
            IF value.s \in DOMAIN FloatTexts THEN Ok(FloatTexts[value.s])
            ELSE Fail("ValueError", "could not convert string to float")
      [] OTHER -> Fail("TypeError", "float() argument")

\* value.lower() for the texts of the model
LowerTexts == ("True" :> "true") @@ ("TRUE" :> "true") @@ ("False" :> "false")

py_lower(text) == IF text \in DOMAIN LowerTexts THEN LowerTexts[text] ELSE text

\* datetime.strptime(text, fmt) for the texts of the model: text -> fmt -> ISO date
StrptimeTexts ==
    ("2024-01-15" :> ("%Y-%m-%d" :> "2024-01-15"))
    @@ ("15-01-2024" :> ("%d-%m-%Y" :> "2024-01-15"))
    @@ ("15/01/2024" :> ("%d/%m/%Y" :> "2024-01-15"))
    @@ ("03/04/2024" :> (("%m/%d/%Y" :> "2024-03-04") @@ ("%d/%m/%Y" :> "2024-04-03")))
    @@ ("2024-01-15T10:30:00" :> ("%Y-%m-%dT%H:%M:%S" :> "2024-01-15T10:30:00"))
    @@ ("2024-01-15 10:30:00" :> ("%Y-%m-%d %H:%M:%S" :> "2024-01-15T10:30:00"))
    @@ ("15-01-2024 10:30:00" :> ("%d-%m-%Y %H:%M:%S" :> "2024-01-15T10:30:00"))

strptime(text, fmt) ==
    IF text \in DOMAIN StrptimeTexts /\ fmt \in DOMAIN StrptimeTexts[text]
    THEN <<StrptimeTexts[text][fmt]>> ELSE <<>>

\* the first format of fmts that parses the text
first_format(text, fmts) ==
    LET hits == SelectSeq(fmts, LAMBDA fmt : strptime(text, fmt) # <<>>)
    IN  IF hits = <<>> THEN <<>> ELSE strptime(text, hits[1])

\* urllib.parse.urlparse(text) for the texts of the model
UrlTexts ==
    ("https://example.com/x" :> [scheme |-> "https", netloc |-> "example.com"])
    @@ ("mailto:a@example.com" :> [scheme |-> "mailto", netloc |-> ""])
    @@ ("//example.com/x" :> [scheme |-> "", netloc |-> "example.com"])

urlparse(text) ==
    IF text \in DOMAIN UrlTexts THEN UrlTexts[text] ELSE [scheme |-> "", netloc |-> ""]

convert_integer(value, lo, hi, xsd_name) ==
    LET parsed == py_int(value)
    IN  IF parsed.ok /\ lo <= parsed.v /\ parsed.v <= hi
        THEN Ok(Int_(parsed.v))
        ELSE Fail("ValueError", <<"Cannot convert", py_str(value), "to", xsd_name>>)

convert_value(value, expected_type_in) ==
    IF value = Null \/ value = Str("")
    THEN IF expected_type_in = "AnyURI" THEN Ok(Str("")) ELSE Ok(Null)
    ELSE
    LET remapped ==
            CASE expected_type_in = "int" -> "xs:integer"
              [] expected_type_in = "float" -> "xs:float"
              [] expected_type_in = "bool" -> "xs:boolean"
              [] expected_type_in = "str" -> "xs:string"
              [] OTHER -> expected_type_in
        is_string == remapped \notin PythonTypes \cup BasyxTypes
        expected_type == IF is_string THEN get_basyx_type(remapped) ELSE remapped
    IN  IF is_string /\ get_basyx_type(remapped) = Absent
        THEN Fail("ValueError", <<"Unhandled XSD type:", remapped>>)
        ELSE CASE expected_type = "str" -> Ok(Str(py_str(value)))
          [] expected_type = "Long" ->
                \* the 64-bit range of Long lies outside the integers of the model
                convert_integer(value, Int32Min, Int32Max, "xs:long.")
          [] expected_type = "Int" ->
                convert_integer(value, Int32Min, Int32Max, "xs:integer.")
          [] expected_type = "UnsignedLong" ->
                \* "UnsignedLong cannot be negative" is raised inside the try and
                \* replaced by the message of the except clause
                convert_integer(value, 0, Int32Max, "xs:unsignedLong")
          [] expected_type = "Float" ->
                IF py_float(value).ok THEN Ok(Float_(py_float(value).v))
                ELSE Fail("ValueError", <<"Cannot convert", py_str(value), "to", "xs:float.">>)
          [] expected_type = Double ->
                IF py_float(value).ok THEN Ok(Float_(py_float(value).v))
                ELSE Fail("ValueError", <<"Cannot convert", py_str(value), "to", "xs:double.">>)
          [] expected_type = Boolean ->
                IF value.t = "bool" THEN Ok(value)
                ELSE IF value.t = "str" /\ py_lower(value.s) \in {"true", "1"}
                THEN Ok(Bool(TRUE))
                ELSE IF value.t = "str" /\ py_lower(value.s) \in {"false", "0"}
                THEN Ok(Bool(FALSE))
                ELSE Fail("ValueError", <<"Cannot convert", py_str(value), "to", "xs:boolean.">>)
          [] expected_type = "Date" ->
                LET d == IF value.t = "str"
                         THEN first_format(value.s,
                                <<"%Y-%m-%d", "%d-%m-%Y", "%m/%d/%Y", "%d/%m/%Y">>)
                         ELSE <<>>
                IN  IF d # <<>> THEN Ok(Date_(d[1]))
                    ELSE Fail("ValueError", <<"Cannot convert", py_str(value), "to",
                                "xs:date. Expected format: YYYY-MM-DD.">>)
          [] expected_type = "DateTime" ->
                LET d == IF value.t = "str"
                         THEN first_format(value.s,
                                <<"%Y-%m-%dT%H:%M:%S", "%Y-%m-%d %H:%M:%S",
                                  "%d-%m-%Y %H:%M:%S">>)
                         ELSE <<>>
                IN  IF d # <<>> THEN Ok(DateTime_(d[1]))
                    ELSE Fail("ValueError", <<"Cannot convert", py_str(value), "to",
                                "xs:dateTime. Expected format: YYYY-MM-DDTHH:MM:SS.">>)
          [] expected_type = "AnyURI" ->
                IF value.t # "str" THEN Fail("AttributeError", <<"decode">>)
                ELSE IF urlparse(value.s).scheme # "" /\ urlparse(value.s).netloc # ""
                THEN Ok(value)
                ELSE Fail("ValueError", <<"Cannot convert", py_str(value), "to", "xs:anyURI.">>)
          [] OTHER -> Fail("TypeError", <<"Unhandled XSD type:", expected_type>>)

(***************************************************************************)
(* update_submodel_data.  new_data is the request's dict as a sequence of   *)
(* [path, value] in key order; asset_record and sub_record are the rows as  *)
(* the request read them.                                                   *)
(***************************************************************************)
Update(path, value) == [path |-> path, value |-> value]

\* a language list merged into the stored one instead of replacing it
new_element_value_merges(element, new_value) ==
    CASE element.modelType = "MultiLanguageProperty" ->
            IF new_value.t # "list"
            THEN Fail("ValueError", <<"Value for MultiLanguageProperty must be an array">>)
            ELSE IF \E i \in 1..Len(new_value.l) :
                        {"language", "text"} \ DOMAIN new_value.l[i] # {}
            THEN Fail("KeyError", <<"language">>)
            ELSE LET supplied == [i \in 1..Len(new_value.l) |->
                        LangString(new_value.l[i].language,
                                   py_str(new_value.l[i].text))]
                     kept == IF element.value = Null THEN <<>>
                             ELSE SelectSeq(element.value.l, LAMBDA old :
                                    \A i \in 1..Len(supplied) :
                                        supplied[i].language # old.language)
                 IN  Ok(Langs(kept \o supplied))
      [] element.modelType = "File" ->
            Ok(IF new_value # Null THEN Str(py_str(new_value)) ELSE Str(""))
      [] element.modelType = "Property" ->
            convert_value(new_value, element.value_type)
      [] OTHER -> Ok(element.value)

\* the assignment to element.value, by the kind of the element
new_element_value(element, new_value) ==
    CASE element.modelType = "MultiLanguageProperty" ->
            IF new_value.t # "list"
            THEN Fail("ValueError", <<"Value for MultiLanguageProperty must be an array">>)
            ELSE IF \E i \in 1..Len(new_value.l) :
                        {"language", "text"} \ DOMAIN new_value.l[i] # {}
            THEN Fail("KeyError", <<"language">>)
            ELSE Ok(Langs([i \in 1..Len(new_value.l) |->
                        LangString(new_value.l[i].language,
                                   py_str(new_value.l[i].text))]))
      [] element.modelType = "File" ->
            Ok(IF new_value # Null THEN Str(py_str(new_value)) ELSE Str(""))
      [] element.modelType = "Property" ->
            convert_value(new_value, element.value_type)
      [] OTHER -> Ok(element.value)

\* "if not element: continue": a path that resolves to no element raises
\* nothing
unresolved_path_rejected(frontend_path) ==
    <<Raised("ValueError", "Failed to update value at", frontend_path)>>

unresolved_path(frontend_path) == <<>>

\* the loop over new_data.items().  maps are the path maps built before the
\* loop; the result is the tree after the updates so far, the target paths
\* appended to updated_elements, and the exception that ended the loop
RECURSIVE process_updates(_, _, _, _)
process_updates(maps, sub_obj, new_data, updated_elements) ==
    IF new_data = <<>>
    THEN [sub_obj |-> sub_obj, updated_elements |-> updated_elements,
          raised |-> <<>>]
    ELSE LET frontend_path == new_data[1].path
             apply(target, addr, converted) ==
                IF ~converted.ok
                THEN [sub_obj |-> sub_obj,
                      updated_elements |-> updated_elements,
                      raised |-> <<IF converted.kind = "ValueError"
                            THEN Raised("ValueError", "Failed to update value at",
                                        frontend_path)
                            ELSE Raised(converted.kind, "", converted.msg)>>]
                ELSE process_updates(maps,
                        [sub_obj EXCEPT !.submodel_element =
                            set_value_at(@, addr, converted.v)],
                        Tail(new_data), Append(updated_elements, target[1]))
             update(target) ==
                IF target = <<>>
                THEN IF unresolved_path(frontend_path) = <<>>
                     THEN process_updates(maps, sub_obj, Tail(new_data),
                                          updated_elements)
                     ELSE [sub_obj |-> sub_obj, updated_elements |-> updated_elements,
                           raised |-> unresolved_path(frontend_path)]
                ELSE Bind(dict_lookup(maps.element_map, target[1]), LAMBDA addr :
                     Bind(new_element_value(
                            element_at(sub_obj.submodel_element, addr),
                            new_data[1].value),
                          LAMBDA converted : apply(target, addr, converted)))
         IN  Bind(resolve_path(maps, frontend_path), update)

\* the end of the request.  done is the outcome of the loop: an exception
\* leaves the session without a commit, a non-empty updated_elements writes
\* the row, an empty one returns the row as it is
persist_whatever_happened(done, sub_record, submodel_id, submodel, now) ==
    Bind(serialize_aas_to_json(done.sub_obj), LAMBDA updated_json :
        [submodel |-> [submodel EXCEPT ![submodel_id] =
            Record(submodel_id, updated_json, sub_record.created_at, now)],
         ret |-> IF done.raised # <<>> THEN done.raised[1]
                 ELSE Returned(updated_json)])

persist_without_updates(done, sub_record, submodel_id, submodel, now) ==
    IF done.raised # <<>>
    THEN [submodel |-> submodel, ret |-> done.raised[1]]
    ELSE Bind(serialize_aas_to_json(done.sub_obj), LAMBDA updated_json :
            [submodel |-> [submodel EXCEPT ![submodel_id] =
                Record(submodel_id, updated_json, sub_record.created_at, now)],
             ret |-> Returned(updated_json)])

\* a commit that is refused when the row is no longer the one that was read
persist_unless_stale(done, sub_record, submodel_id, submodel, now) ==
    IF done.raised # <<>>
    THEN [submodel |-> submodel, ret |-> done.raised[1]]
    ELSE IF session_get(submodel, submodel_id) # sub_record
    THEN [submodel |-> submodel,
          ret |-> Raised("StaleDataError", "Row was updated", <<submodel_id>>)]
    ELSE IF done.updated_elements # <<>>
    THEN Bind(serialize_aas_to_json(done.sub_obj), LAMBDA updated_json :
            [submodel |-> [submodel EXCEPT ![submodel_id] =
                Record(submodel_id, updated_json, sub_record.created_at, now)],
             ret |-> Returned(updated_json)])
    ELSE [submodel |-> submodel, ret |-> Returned(sub_record.data)]


persist(done, sub_record, submodel_id, submodel, now) ==
    IF done.raised # <<>>
    THEN [submodel |-> submodel, ret |-> done.raised[1]]
    ELSE IF done.updated_elements # <<>>
    THEN Bind(serialize_aas_to_json(done.sub_obj), LAMBDA updated_json :
            [submodel |-> [submodel EXCEPT ![submodel_id] =
                Record(submodel_id, updated_json, sub_record.created_at, now)],
             ret |-> Returned(updated_json)])
    ELSE [submodel |-> submodel, ret |-> Returned(sub_record.data)]

update_submodel_data(asset_record, sub_record, aas_id, submodel_id, new_data, submodel, now) ==
    IF asset_record = NoRecord
    THEN [submodel |-> submodel,
          ret |-> Raised("ValueError", "No asset found", <<aas_id>>)]
    ELSE IF submodel_id \notin deserialize_aas_from_json(asset_record.data).submodels
    THEN [submodel |-> submodel,
          ret |-> Raised("ValueError", "Submodel is not part of AAS", <<submodel_id>>)]
    ELSE IF sub_record = NoRecord
    THEN [submodel |-> submodel,
          ret |-> Raised("ValueError", "No submodel found", <<submodel_id>>)]
    ELSE Bind(deserialize_aas_from_json(sub_record.data), LAMBDA sub_obj :
         Bind(process_updates(path_maps(sub_obj), sub_obj, new_data, <<>>),
              LAMBDA done : persist(done, sub_record, submodel_id, submodel, now)))

(***************************************************************************)
(* Requests.  result records the last request: its operation, its           *)
(* arguments and what it returned or raised.                                *)
(***************************************************************************)
Request(op, args, ret) == [op |-> op, args |-> args, ret |-> ret]

EmptyTable == [id \in {} |-> NoRecord]

\* an identifier no request has generated
UnknownId == generate_id(0)

AasIds == DOMAIN aas_asset \cup {UnknownId}
SubmodelIds == DOMAIN aas_submodel \cup {UnknownId}

\* lists of template ids a create or attach request may carry
TemplateIdLists == {<<T1>>, <<T2>>, <<T1, TUnknown>>}

AssetDataChoices ==
    {EmptyDict, ("global_asset_id" :> "urn:asset:pump") @@ ("display_name" :> "Pump")}

MetadataChoices ==
    {("description" :> "A pump"), ("global_asset_id" :> "urn:asset:other")}

Init ==
    /\ aas_asset = EmptyTable
    /\ aas_submodel = EmptyTable
    /\ uuid_seq = 0
    /\ clock = 0
    /\ result = Request("none", Null, Returned(Null))
    /\ in_flight = {}

CreateAasFrom(lists) ==
    /\ clock < MaxClock
    /\ \E template_ids \in lists, asset_data \in AssetDataChoices :
        \E r \in {create_asset_from_templates(template_ids, asset_data,
                    aas_asset, aas_submodel, uuid_seq, clock + 1)} :
            /\ aas_asset' = r.asset
            /\ aas_submodel' = r.submodel
            /\ uuid_seq' = r.n
            /\ clock' = clock + 1
            /\ result' = Request("create_aas",
                    [template_ids |-> template_ids, asset_data |-> asset_data], r.ret)
            /\ UNCHANGED in_flight

CreateAas == CreateAasFrom(TemplateIdLists)

GetAas ==
    \E aas_id \in AasIds :
        /\ result' = Request("get_aas", [aas_id |-> aas_id],
                get_asset_by_id(aas_id, aas_asset, aas_submodel))
        /\ UNCHANGED <<aas_asset, aas_submodel, uuid_seq, clock, in_flight>>

UpdateAasMetadata ==
    /\ clock < MaxClock
    /\ \E aas_id \in AasIds, new_metadata \in MetadataChoices :
        \E r \in {update_asset_metadata(session_get(aas_asset, aas_id), aas_id,
                    new_metadata, aas_asset, aas_submodel, clock + 1)} :
            /\ aas_asset' = r.asset
            /\ aas_submodel' = r.submodel
            /\ clock' = clock + 1
            /\ result' = Request("update_aas_metadata",
                    [aas_id |-> aas_id, new_metadata |-> new_metadata], r.ret)
            /\ UNCHANGED <<uuid_seq, in_flight>>

AttachSubmodels ==
    /\ clock < MaxClock
    /\ \E aas_id \in AasIds, template_ids \in TemplateIdLists :
        \E r \in {attach_submodels_to_asset(session_get(aas_asset, aas_id), aas_id,
                    template_ids, aas_asset, aas_submodel, uuid_seq, clock + 1)} :
            /\ aas_asset' = r.asset
            /\ aas_submodel' = r.submodel
            /\ uuid_seq' = r.n
            /\ clock' = clock + 1
            /\ result' = Request("attach_submodels",
                    [aas_id |-> aas_id, template_ids |-> template_ids], r.ret)
            /\ UNCHANGED in_flight

RemoveSubmodel ==
    /\ clock < MaxClock
    /\ \E aas_id \in AasIds, submodel_id \in SubmodelIds :
        \E r \in {remove_submodel_from_asset(session_get(aas_asset, aas_id), aas_id,
                    submodel_id, aas_asset, aas_submodel, clock + 1)} :
            /\ aas_asset' = r.asset
            /\ aas_submodel' = r.submodel
            /\ clock' = clock + 1
            /\ result' = Request("remove_submodel",
                    [aas_id |-> aas_id, submodel_id |-> submodel_id], r.ret)
            /\ UNCHANGED <<uuid_seq, in_flight>>

DeleteAas ==
    /\ clock < MaxClock
    /\ \E aas_id \in AasIds :
        \E r \in {delete_asset(session_get(aas_asset, aas_id), aas_id,
                    aas_asset, aas_submodel)} :
            /\ aas_asset' = r.asset
            /\ aas_submodel' = r.submodel
            /\ clock' = clock + 1
            /\ result' = Request("delete_aas", [aas_id |-> aas_id], r.ret)
            /\ UNCHANGED <<uuid_seq, in_flight>>

\* the request dicts of at most MaxBatch keys over a set of [path, value]
Batches(updates) ==
    {b \in SeqsUpTo(updates, MaxBatch) :
        \A i, j \in 1..Len(b) : i # j => b[i].path # b[j].path}

\* what the lifecycle requests send: one path that resolves on a Nameplate and
\* one that resolves nowhere
LifecycleUpdates ==
    {Update(<<"Nameplate", "/", "SerialNumber">>, Str("XYZ-1")),
     Update(<<"Nameplate", "/", "NoSuch">>, Str("XYZ-1"))}

LifecycleBatches(submodel_id) == Batches(LifecycleUpdates)

UpdateSubmodelDataWith(aas_ids, submodel_ids, batches) ==
    /\ clock < MaxClock
    /\ \E aas_id \in aas_ids, submodel_id \in submodel_ids :
        \E new_data \in batches[submodel_id] :
            \E r \in {update_submodel_data(session_get(aas_asset, aas_id),
                        session_get(aas_submodel, submodel_id), aas_id, submodel_id,
                        new_data, aas_submodel, clock + 1)} :
                /\ aas_submodel' = r.submodel
                /\ clock' = clock + 1
                /\ result' = Request("update_submodel_data",
                        [aas_id |-> aas_id, submodel_id |-> submodel_id,
                         new_data |-> new_data], r.ret)
                /\ UNCHANGED <<aas_asset, uuid_seq, in_flight>>

UpdateSubmodelData ==
    UpdateSubmodelDataWith(AasIds, SubmodelIds,
        [submodel_id \in SubmodelIds |-> LifecycleBatches(submodel_id)])

Next ==
    \/ CreateAas
    \/ GetAas
    \/ UpdateAasMetadata
    \/ UpdateSubmodelData
    \/ AttachSubmodels
    \/ RemoveSubmodel
    \/ DeleteAas

Spec == Init /\ [][Next]_vars

(***************************************************************************)
(* Updates of a stored Nameplate.  SpecUpdate starts where the first        *)
(* instantiate-asset request with template T1 has left the store and sends  *)
(* update-submodel-elements and get-asset requests.                         *)
(***************************************************************************)
\* updates sent in batches: a canonical path of a string Property, a path of
\* no node, a text that is no integer for an integer Property, a text and a
\* list for a MultiLanguageProperty
ElementUpdates ==
    {Update(<<"Nameplate", "/", "SerialNumber">>, Str("XYZ-1")),
     Update(<<"Nameplate", "/", "NoSuch">>, Str("XYZ-1")),
     Update(<<"Nameplate", "/", "YearOfConstruction">>, Str("XYZ-1")),
     Update(<<"Nameplate", "/", "ManufacturerName">>, Str("ACME")),
     Update(<<"Nameplate", "/", "ManufacturerName">>,
            List(<<[language |-> "fr", text |-> Str("ACME SA")]>>))}

\* updates sent alone: a key of the simplified map, a key of the full map, an
\* indexed path of a list child, paths of two and of three parts only the
\* last part of which matches, that last part alone, the text of an integer,
\* null for a File, and the path of a collection
PathUpdates(submodel_id) ==
    {Update(<<"Nameplate", "/", submodel_id, "/", "Address", "/", "Street">>,
            Str("Side St")),
     Update(<<"Nameplate", "/", submodel_id, "/", submodel_id, "/", "Address", "/",
              "Street">>, Str("Side St")),
     Update(<<"Nameplate", "/", submodel_id, "/", "Phones", "[", "0", "]">>,
            Str("556")),
     Update(<<"Stale", "/", "Street">>, Str("Side St")),
     Update(<<"Old", "/", "Address", "/", "Street">>, Str("Side St")),
     Update(<<"Street">>, Str("Side St")),
     Update(<<"Nameplate", "/", "YearOfConstruction">>, Str("2024")),
     Update(<<"Nameplate", "/", "Logo">>, Null),
     Update(<<"Nameplate", "/", "Address">>, Str("Side St"))}

ElementBatches(submodel_id) ==
    Batches(ElementUpdates) \cup {<<u>> : u \in PathUpdates(submodel_id)}

InitUpdate ==
    \E r \in {create_asset_from_templates(<<T1>>, EmptyDict, EmptyTable, EmptyTable,
                                          0, 1)} :
        /\ aas_asset = r.asset
        /\ aas_submodel = r.submodel
        /\ uuid_seq = r.n
        /\ clock = 1
        /\ result = Request("create_aas",
                [template_ids |-> <<T1>>, asset_data |-> EmptyDict], r.ret)
        /\ in_flight = {}

UpdateElements ==
    UpdateSubmodelDataWith(DOMAIN aas_asset, DOMAIN aas_submodel,
        [submodel_id \in DOMAIN aas_submodel |-> ElementBatches(submodel_id)])

NextUpdate ==
    \/ UpdateElements
    \/ GetAas

SpecUpdate == InitUpdate /\ [][NextUpdate]_vars

(***************************************************************************)
(* Requests that overlap.  Every request runs in a session of its own; a    *)
(* request that rewrites a shell reads the row, builds the new JSON from    *)
(* what it read and commits it later.  SpecConc splits update-asset-        *)
(* metadata at that point, so other requests commit between its read and    *)
(* its commit; in_flight holds the requests that have read and not yet      *)
(* committed.                                                               *)
(***************************************************************************)
BeginUpdateAasMetadata ==
    /\ Cardinality(in_flight) < MaxInFlight
    /\ \E aas_id \in AasIds, new_metadata \in MetadataChoices :
        IF session_get(aas_asset, aas_id) = NoRecord
        THEN /\ result' = Request("update_aas_metadata",
                    [aas_id |-> aas_id, new_metadata |-> new_metadata],
                    Raised("ValueError", "No asset found", <<aas_id>>))
             /\ UNCHANGED <<aas_asset, aas_submodel, uuid_seq, clock, in_flight>>
        ELSE /\ in_flight' = in_flight \cup
                    {[aas_id |-> aas_id, new_metadata |-> new_metadata,
                      asset_record |-> aas_asset[aas_id]]}
             /\ UNCHANGED <<aas_asset, aas_submodel, uuid_seq, clock, result>>

CommitUpdateAasMetadata ==
    /\ clock < MaxClock
    /\ \E req \in in_flight :
        \E r \in {update_asset_metadata(req.asset_record, req.aas_id,
                    req.new_metadata, aas_asset, aas_submodel, clock + 1)} :
            /\ aas_asset' = r.asset
            /\ aas_submodel' = r.submodel
            /\ clock' = clock + 1
            /\ in_flight' = in_flight \ {req}
            /\ result' = Request("update_aas_metadata",
                    [aas_id |-> req.aas_id, new_metadata |-> req.new_metadata], r.ret)
            /\ UNCHANGED uuid_seq

CreateAasConc == CreateAasFrom({<<T2>>})

NextConc ==
    \/ CreateAasConc
    \/ BeginUpdateAasMetadata
    \/ CommitUpdateAasMetadata
    \/ RemoveSubmodel
    \/ GetAas

SpecConc == Init /\ [][NextConc]_vars

(***************************************************************************)
(* Properties of the lifecycle operations, checked under Spec.              *)
(***************************************************************************)
\* the references a stored shell holds
references(asset, aas_id) == asset[aas_id].data.submodels

\* a step that completes a request of the given operation: every step but the
\* read of an update-asset-metadata request writes what its request returned
Completes(op) == result'.op = op /\ in_flight' \subseteq in_flight

\* C1: instantiate-asset with the single template id T1 succeeds, stores the
\* shell it returns, and that shell references exactly one submodel, stored
\* under an id generated by this request (so not T1 and not an id of an earlier
\* request), with administration.templateId = T1 and kind = Instance.
C1_InstantiateFromT1 ==
    [][(Completes("create_aas") /\ result'.args.template_ids = <<T1>>) =>
        /\ result'.ret.status = "ok"
        /\ LET shell == result'.ret.value
           IN  /\ shell.id \in DOMAIN aas_asset' \ DOMAIN aas_asset
               /\ aas_asset'[shell.id].data = shell
               /\ Cardinality(shell.submodels) = 1
               /\ \A S \in shell.submodels :
                    /\ S # T1
                    /\ \E k \in (uuid_seq + 1)..uuid_seq' : S = generate_id(k)
                    /\ S \in DOMAIN aas_submodel' \ DOMAIN aas_submodel
                    /\ aas_submodel'[S].data.id = S
                    /\ aas_submodel'[S].data.administration.templateId = T1
                    /\ aas_submodel'[S].data.kind = "Instance"]_vars

\* a second asset has been instantiated from T1 while an earlier one is stored
C1_Witness ==
    /\ result.op = "create_aas"
    /\ result.args.template_ids = <<T1>>
    /\ result.ret.status = "ok"
    /\ Cardinality(DOMAIN aas_asset) = 2
    /\ \E S \in result.ret.value.submodels :
            S \in DOMAIN aas_submodel /\ aas_submodel[S].data.kind = "Instance"

\* C2: between requests every submodel row is referenced by exactly one stored
\* shell.  With ids never generated twice this covers delete-asset: a row left
\* behind by a deleted shell would be referenced by no shell.
C2_ExactlyOneOwner ==
    \A S \in DOMAIN aas_submodel :
        Cardinality({a \in DOMAIN aas_asset : S \in references(aas_asset, a)}) = 1

\* an asset has been deleted while another asset with submodels is stored
C2_Witness ==
    /\ result.op = "delete_aas"
    /\ result.ret.status = "ok"
    /\ result.args.aas_id \notin DOMAIN aas_asset
    /\ \E a \in DOMAIN aas_asset : references(aas_asset, a) # {}
    /\ DOMAIN aas_submodel # {}

\* the submodel id of an entry of a get-asset reply: a body or a reference
entry_id(e) == IF "keys" \in DOMAIN e THEN e.keys ELSE e.id

\* C3: a successful detach-submodel(asset, S) leaves no row S in the submodel
\* table, a get-asset of the asset right after it succeeds and mentions S
\* neither as a body nor as a reference, and the shell keeps exactly its other
\* references.
C3_DetachRemoves ==
    [][(Completes("remove_submodel") /\ result'.ret.status = "ok") =>
        LET a == result'.args.aas_id
            S == result'.args.submodel_id
            got == get_asset_by_id(a, aas_asset', aas_submodel')
        IN  /\ S \in references(aas_asset, a)
            /\ S \notin DOMAIN aas_submodel'
            /\ got.status = "ok"
            /\ \A e \in got.value.submodels : entry_id(e) # S
            /\ references(aas_asset', a) = references(aas_asset, a) \ {S}
            /\ {entry_id(e) : e \in got.value.submodels} =
                    references(aas_asset, a) \ {S}]_vars

\* a submodel has been detached from a shell that keeps another one
C3_Witness ==
    /\ result.op = "remove_submodel"
    /\ result.ret.status = "ok"
    /\ result.args.submodel_id \notin DOMAIN aas_submodel
    /\ references(aas_asset, result.args.aas_id) # {}

(***************************************************************************)
(* Properties of get-asset on a shell whose references are not all in the   *)
(* submodel table, checked under SpecConc.                                  *)
(***************************************************************************)
\* C4: get-asset of a stored shell succeeds whichever of its references have
\* no row: the reply lists one entry per reference, the stored submodel (as
\* the codec reads and writes it) for a reference with a row and the bare
\* reference for one without, and the step changes neither table.
C4_GetToleratesMissing ==
    [][(Completes("get_aas") /\ result'.args.aas_id \in DOMAIN aas_asset) =>
        LET a == result'.args.aas_id
            refs == references(aas_asset, a)
            present == refs \cap DOMAIN aas_submodel
        IN  /\ result'.ret.status = "ok"
            /\ result'.ret.value.submodels =
                    {serialize_aas_to_json(deserialize_aas_from_json(
                        aas_submodel[S].data)) : S \in present}
                    \cup {ModelReference(S) : S \in refs \ present}
            /\ {entry_id(e) : e \in result'.ret.value.submodels} = refs
            /\ aas_asset' = aas_asset
            /\ aas_submodel' = aas_submodel]_vars

\* get-asset has answered for a shell with one reference that has a row and
\* one that has none
C4_Witness ==
    /\ result.op = "get_aas"
    /\ result.ret.status = "ok"
    /\ result.args.aas_id \in DOMAIN aas_asset
    /\ \E S \in references(aas_asset, result.args.aas_id) :
            /\ S \notin DOMAIN aas_submodel
            /\ ModelReference(S) \in result.ret.value.submodels
    /\ \E S \in references(aas_asset, result.args.aas_id) :
            /\ S \in DOMAIN aas_submodel
            /\ aas_submodel[S].data \in result.ret.value.submodels

(***************************************************************************)
(* Properties of update-submodel-elements, checked under SpecUpdate.  In a  *)
(* step that completes an update request, a is the asset, S the submodel    *)
(* and batch the updates of the request; data is the stored JSON of S       *)
(* before the step.                                                         *)
(***************************************************************************)
\* the request passed the checks on the asset, the reference and the row
Admitted(a, S) ==
    /\ a \in DOMAIN aas_asset
    /\ S \in references(aas_asset, a)
    /\ S \in DOMAIN aas_submodel

\* the address of the node a path resolves to, if any
node_of(maps, path) ==
    Bind(resolve_path(maps, path), LAMBDA target :
        IF target = <<>> THEN <<>> ELSE <<dict_lookup(maps.element_map, target[1])>>)

\* what a request finds: the tree of the stored JSON of S, its path maps, and
\* for every update of the batch the node of its path and what that node is
\* given
Found(S, batch) ==
    Bind(deserialize_aas_from_json(aas_submodel[S].data), LAMBDA old :
    Bind(path_maps(old), LAMBDA maps :
    Bind([i \in 1..Len(batch) |-> node_of(maps, batch[i].path)], LAMBDA node :
        [old |-> old, maps |-> maps, node |-> node,
         converted |-> [i \in 1..Len(batch) |->
            IF node[i] = <<>> THEN Ok(Null)
            ELSE new_element_value(element_at(old.submodel_element, node[i][1]),
                                   batch[i].value)]])))

\* the updates of the batch whose path resolves, and those of them that fail
resolved(found) == {i \in DOMAIN found.node : found.node[i] # <<>>}

failing(found) == {i \in resolved(found) : ~found.converted[i].ok}

Last(I) == CHOOSE i \in I : \A j \in I : j <= i
First(I) == CHOOSE i \in I : \A j \in I : i <= j

\* the value of every node after the batch: that of the last update that
\* resolves to it, its old value if there is none
values_after(found) ==
    [addr \in Range(walk_submodel(found.old)) |->
        LET hits == {i \in resolved(found) : found.node[i] = <<addr>>}
        IN  IF hits = {}
            THEN element_at(found.old.submodel_element, addr).value
            ELSE found.converted[Last(hits)].v]

\* new is old with the value of every node replaced by values[its address]
SameExcept(new, old, values) ==
    /\ [new EXCEPT !.submodel_element = <<>>] = [old EXCEPT !.submodel_element = <<>>]
    /\ walk_submodel(new) = walk_submodel(old)
    /\ \A addr \in Range(walk_submodel(old)) :
        \A n \in {element_at(new.submodel_element, addr)},
           o \in {element_at(old.submodel_element, addr)} :
            /\ n.modelType = o.modelType
            /\ n.id_short = o.id_short
            /\ n.value_type = o.value_type
            /\ Len(n.children) = Len(o.children)
            /\ n.value = values[addr]

\* the row of S was written in this step
Persisted(S) == aas_submodel'[S].updated_at = clock' /\ clock' = clock + 1

\* C5: the row is written if and only if some path of the batch resolved to a
\* node and no update raised.  With no resolving path the row (data and
\* updated_at) is as before and the stored JSON is returned; with one, the
\* tree with every resolved update applied is stored and returned.
C5_PersistsIffApplied ==
    [][(Completes("update_submodel_data")
            /\ Admitted(result'.args.aas_id, result'.args.submodel_id)) =>
        \A S \in {result'.args.submodel_id} :
        \A found \in {Found(S, result'.args.new_data)} :
            /\ Persisted(S) <=> (resolved(found) # {} /\ failing(found) = {})
            /\ ~Persisted(S) => aas_submodel' = aas_submodel
            /\ resolved(found) = {} =>
                    result'.ret = Returned(aas_submodel[S].data)
            /\ Persisted(S) =>
                    /\ result'.ret = Returned(aas_submodel'[S].data)
                    /\ aas_submodel'[S].created_at = aas_submodel[S].created_at
                    /\ SameExcept(deserialize_aas_from_json(aas_submodel'[S].data),
                                  found.old, values_after(found))]_vars

\* a batch of which no path resolves has been answered with the stored JSON,
\* which an earlier batch had written
C5_Witness ==
    /\ result.op = "update_submodel_data"
    /\ result.ret.status = "ok"
    /\ result.args.new_data # <<>>
    /\ resolved(Found(result.args.submodel_id, result.args.new_data)) = {}
    /\ aas_submodel[result.args.submodel_id].updated_at = clock - 1
    /\ result.ret.value = aas_submodel[result.args.submodel_id].data
    /\ clock = 3

C7_UnresolvedPathSkipped ==
    [][(Completes("update_submodel_data")
            /\ Admitted(result'.args.aas_id, result'.args.submodel_id)) =>
        \A a \in {result'.args.aas_id}, S \in {result'.args.submodel_id},
           batch \in {result'.args.new_data} :
        \A found \in {Found(S, batch)} :
        \A without \in {update_submodel_data(aas_asset[a], aas_submodel[S], a, S,
                            SelectSeq(batch, LAMBDA update :
                                \E i \in resolved(found) : batch[i] = update),
                            aas_submodel, clock')} :
            /\ failing(found) = {} => result'.ret.status = "ok"
            /\ result'.ret = without.ret
            /\ aas_submodel' = without.submodel
            /\ (failing(found) = {} /\ resolved(found) # {}) =>
                    /\ Persisted(S)
                    /\ \A new \in {deserialize_aas_from_json(aas_submodel'[S].data)} :
                       \A i \in resolved(found) :
                            element_at(new.submodel_element, found.node[i][1]).value
                            = values_after(found)[found.node[i][1]]]_vars

\* a batch of a path that resolves to no node and a path that resolves has
\* been stored
C7_Witness ==
    /\ result.op = "update_submodel_data"
    /\ result.ret.status = "ok"
    /\ Len(result.args.new_data) = 2
    /\ aas_submodel[result.args.submodel_id].updated_at = clock
    /\ aas_submodel[result.args.submodel_id].data = result.ret.value
    /\ \E found \in {Found(result.args.submodel_id, result.args.new_data)} :
        /\ found.node[1] = <<>>
        /\ found.node[2] # <<>>

\* the lookups of the five strategies in the stated order
in_order(maps, path) ==
    << direct_lookup(maps, path), simplified_lookup(maps, path),
       full_lookup(maps, path), normalized_lookup(maps, path),
       basename_lookup(maps, path) >>

\* the node of the first lookup that finds one
first_found(lookups) ==
    IF \A k \in 1..Len(lookups) : lookups[k] = <<>> THEN <<>>
    ELSE lookups[First({k \in 1..Len(lookups) : lookups[k] # <<>>})]

\* C8: the node an update is applied to is the node of the first strategy, in
\* the order canonical, simplified, full, normalized, basename, that finds one
\* for its path; so a key of the simplified map that is no canonical path sets
\* the node that map gives, also where the basename or the normalized form of
\* the path leads elsewhere.
C8_ResolutionOrder ==
    [][(Completes("update_submodel_data")
            /\ Admitted(result'.args.aas_id, result'.args.submodel_id)
            /\ Len(result'.args.new_data) = 1
            /\ result'.ret.status = "ok") =>
        \A S \in {result'.args.submodel_id}, update \in {result'.args.new_data[1]} :
        \A found \in {Found(S, <<update>>)} :
        \A lookups \in {in_order(found.maps, update.path)} :
        \A target \in {first_found(lookups)} :
            /\ target = <<>> => aas_submodel' = aas_submodel
            /\ target # <<>> =>
                \A hit \in {dict_lookup(found.maps.element_map, target[1])} :
                    SameExcept(deserialize_aas_from_json(aas_submodel'[S].data),
                        found.old,
                        [addr \in Range(walk_submodel(found.old)) |->
                            IF addr = hit
                            THEN new_element_value(
                                    element_at(found.old.submodel_element, hit),
                                    update.value).v
                            ELSE element_at(found.old.submodel_element, addr).value])
            /\ (lookups[1] = <<>> /\ lookups[2] # <<>>) =>
                    element_at(aas_submodel'[S].data.submodelElements,
                        dict_lookup(found.maps.element_map, lookups[2][1])).value
                    = update.value]_vars

\* an update by a key of the simplified map has set the node of that map,
\* and the last part of its path is the last part of an earlier key of the
\* element map, which still holds its value
C8_Witness ==
    /\ result.op = "update_submodel_data"
    /\ result.ret.status = "ok"
    /\ Len(result.args.new_data) = 1
    /\ aas_submodel[result.args.submodel_id].data = result.ret.value
    /\ \E update \in {result.args.new_data[1]} :
       \E found \in {Found(result.args.submodel_id, <<update>>)} :
       \E lookups \in {in_order(found.maps, update.path)} :
           /\ lookups[1] = <<>>
           /\ lookups[2] # <<>>
           /\ lookups[5] # <<>>
           /\ lookups[5] # lookups[2]
           /\ element_at(result.ret.value.submodelElements,
                    dict_lookup(found.maps.element_map, lookups[2][1])).value
                = update.value
           /\ element_at(result.ret.value.submodelElements,
                    dict_lookup(found.maps.element_map, lookups[5][1])).value
                # update.value

\* the languages of a stored or supplied list of language entries
languages(l) == {l[i].language : i \in 1..Len(l)}

\* the stored entries of a MultiLanguageProperty; none are written as no value
entries(e) == IF e.value = Null THEN <<>> ELSE e.value.l

\* C9: after an update of a MultiLanguageProperty the stored entries are the
\* supplied ones, each with the text of its item: no entry of a language that
\* was stored before and not supplied is left.
C9_LanguagesReplaced ==
    [][(Completes("update_submodel_data")
            /\ Admitted(result'.args.aas_id, result'.args.submodel_id)
            /\ result'.ret.status = "ok") =>
        \A S \in {result'.args.submodel_id}, batch \in {result'.args.new_data} :
        \A found \in {Found(S, batch)} :
        \A i \in resolved(found) :
            \A before \in {element_at(aas_submodel[S].data.submodelElements,
                                      found.node[i][1])},
               after \in {element_at(aas_submodel'[S].data.submodelElements,
                                     found.node[i][1])} :
                (/\ before.modelType = "MultiLanguageProperty"
                 /\ \A j \in resolved(found) : found.node[j] = found.node[i] => j <= i) =>
                    /\ entries(after) =
                            [k \in 1..Len(batch[i].value.l) |->
                                LangString(batch[i].value.l[k].language,
                                           py_str(batch[i].value.l[k].text))]
                    /\ \A lang \in languages(entries(before)) :
                            lang \notin languages(batch[i].value.l) =>
                                lang \notin languages(entries(after))]_vars

\* a MultiLanguageProperty the template gives two languages has been updated
\* with an entry of a third language and holds that entry alone
C9_Witness ==
    /\ result.op = "update_submodel_data"
    /\ result.ret.status = "ok"
    /\ \E found \in {Found(result.args.submodel_id, result.args.new_data)} :
       \E i \in resolved(found) :
        \E stored \in {element_at(aas_submodel[result.args.submodel_id]
                            .data.submodelElements, found.node[i][1])},
           update \in {result.args.new_data[i]} :
            /\ stored.modelType = "MultiLanguageProperty"
            /\ update.value.t = "list"
            /\ languages(entries(stored)) = languages(update.value.l)
            /\ languages(update.value.l) # {}
            /\ languages(update.value.l) \cap
               languages(entries(element_at(NameplateTemplate.submodelElements,
                                            found.node[i][1]))) = {}

\* the update sets a string Property, addressed by submodel idShort /
\* property idShort, to a text that is not empty
SetsStringProperty(S, update) ==
    /\ update.value.t = "str"
    /\ update.value.s # ""
    /\ Len(update.path) = 3
    /\ \E found \in {Found(S, <<update>>)} :
        /\ dict_has(found.maps.element_map, update.path)
        /\ \E e \in {element_at(aas_submodel[S].data.submodelElements,
                                found.node[1][1])} :
            e.modelType = "Property" /\ e.valueType = "xs:string"

\* C10: after an update that sets a string Property, addressed by its
\* canonical path, to a text, get-asset of the asset embeds the submodel with
\* that text as the value of the Property; the valueType of the Property and
\* every other element are as get-asset showed them before.  (The empty text
\* is read as no value and is not among the texts sent.)
C10_CanonicalStringUpdateVisible ==
    [][(Completes("update_submodel_data")
            /\ Admitted(result'.args.aas_id, result'.args.submodel_id)
            /\ Len(result'.args.new_data) = 1
            /\ SetsStringProperty(result'.args.submodel_id,
                                  result'.args.new_data[1])) =>
        \A a \in {result'.args.aas_id}, S \in {result'.args.submodel_id},
           update \in {result'.args.new_data[1]} :
        \A addr \in {Found(S, <<update>>).node[1][1]},
           before \in {get_asset_by_id(a, aas_asset, aas_submodel)},
           got \in {get_asset_by_id(a, aas_asset', aas_submodel')} :
            /\ result'.ret.status = "ok"
            /\ got.status = "ok"
            /\ \E body \in got.value.submodels :
                /\ entry_id(body) = S
                /\ body # ModelReference(S)
                /\ element_at(body.submodelElements, addr).value = update.value
                /\ element_at(body.submodelElements, addr).valueType = "xs:string"
                /\ \E shown \in before.value.submodels :
                    body = [shown EXCEPT !.submodelElements =
                                set_value_at(@, addr, update.value)]
            /\ [got.value EXCEPT !.submodels = {}] =
               [before.value EXCEPT !.submodels = {}]
            /\ {entry_id(e) : e \in got.value.submodels} =
               {entry_id(e) : e \in before.value.submodels}]_vars

\* the serial number of the Nameplate has been set by its canonical path and
\* get-asset has shown it
C10_Witness ==
    /\ result.op = "get_aas"
    /\ result.ret.status = "ok"
    /\ \E body \in result.ret.value.submodels :
        /\ body # ModelReference(entry_id(body))
        /\ body.idShort = "Nameplate"
        /\ body.submodelElements[1].idShort = "SerialNumber"
        /\ body.submodelElements[1].value = Str("XYZ-1")
        /\ body.submodelElements[1].valueType = "xs:string"
        /\ body.submodelElements[2].value = Str("2020")

(***************************************************************************)
(* convert_value on its own.  SpecConvert calls it with every value of      *)
(* ConvertValues and every declared type of DeclaredTypes and records the   *)
(* call and what it returned or raised in result; it starts where a first   *)
(* call has returned.                                                       *)
(***************************************************************************)
\* the tags of get_basyx_type's type_mapping
SupportedTags ==
    {"xs:string", "xs:integer", "xs:long", "xs:unsignedLong", "xs:double",
     "xs:float", "xs:boolean", "xs:date", "xs:dateTime", "xs:anyURI"}

\* tags that type_mapping does not hold
UnsupportedTags == {"xs:decimal", "xs:duration", "string"}

\* the types the tags resolve to: the value_type classes of a Property
ResolvedTypes == {get_basyx_type(tag) : tag \in SupportedTags}

\* a class convert_value has no branch for
UnhandledClasses == {"Decimal"}

DeclaredTypes ==
    SupportedTags \cup UnsupportedTags \cup ResolvedTypes \cup UnhandledClasses
    \cup {"int"}

ConvertValues ==
    {Null, Str(""), Str("-1"), Str("-7"), Str("5"), Str("007"), Str("abc"),
     Str("1.5"), Str("true"), Str("2024-01-15"), Str("2024-01-15T10:30:00"),
     Str("https://example.com/x"), Int_(-1), Int_(5), Bool(TRUE), List(<<>>)}

\* result after convert_value(value, expected_type)
Converted(value, expected_type) ==
    Request("convert_value", [value |-> value, expected_type |-> expected_type],
            convert_value(value, expected_type))

InitConvert ==
    /\ aas_asset = EmptyTable
    /\ aas_submodel = EmptyTable
    /\ uuid_seq = 0
    /\ clock = 0
    /\ \E value \in ConvertValues, expected_type \in DeclaredTypes :
        result = Converted(value, expected_type)
    /\ in_flight = {}

ConvertValue ==
    \E value \in ConvertValues, expected_type \in DeclaredTypes :
        /\ result' = Converted(value, expected_type)
        /\ UNCHANGED <<aas_asset, aas_submodel, uuid_seq, clock, in_flight>>

NextConvert == ConvertValue

SpecConvert == InitConvert /\ [][NextConvert]_vars

(***************************************************************************)
(* Properties of convert_value, checked under SpecConvert.                  *)
(***************************************************************************)
\* the declared type is a supported one, as a tag or as the type of a tag
Supported(expected_type) == expected_type \in SupportedTags \cup ResolvedTypes

\* the declared type is the URI type, as a tag or as the type of the tag
IsUri(expected_type) == expected_type \in {"xs:anyURI", get_basyx_type("xs:anyURI")}

\* C11: for every supported type, given as its tag or as the type the tag
\* resolves to, null and the empty string convert to null, except that the
\* empty string converts to the empty string when the type is the URI type.
C11_NullAndEmptyConvertToNull ==
    (/\ result.op = "convert_value"
     /\ result.args.value \in {Null, Str("")}
     /\ Supported(result.args.expected_type)) =>
        result.ret = IF IsUri(result.args.expected_type)
                            /\ result.args.value = Str("")
                     THEN Ok(Str("")) ELSE Ok(Null)


\* the declared type is unsigned-long, as a tag or as the type of the tag
IsUnsignedLong(expected_type) ==
    expected_type \in {"xs:unsignedLong", get_basyx_type("xs:unsignedLong")}

\* an error without the value it echoes: its kind and the fixed words of its
\* message
ErrorShape(raised) ==
    <<raised.kind,
      SelectSeq(raised.msg, LAMBDA word : Len(raised.msg) < 2 \/ word # raised.msg[2])>>

\* the values of ConvertValues that int() rejects
NotIntegers == {value \in ConvertValues \ {Null, Str("")} : ~py_int(value).ok}

\* C12: a value that parses as a negative integer, converted to unsigned-long,
\* fails with an error of its own: apart from the echoed value it is not the
\* error raised for a value that does not parse as an integer.
C12_NegativeUnsignedLongHasOwnError ==
    (/\ result.op = "convert_value"
     /\ IsUnsignedLong(result.args.expected_type)
     /\ py_int(result.args.value).ok
     /\ py_int(result.args.value).v < 0) =>
        /\ ~result.ret.ok
        /\ \A value \in NotIntegers :
            ErrorShape(result.ret) #
                ErrorShape(convert_value(value, result.args.expected_type))

\* the kinds of error convert_value raises for a value of ConvertValues that a
\* supported tag does not accept
PerValueErrorKinds ==
    {convert_value(value, tag).kind :
        <<value, tag>> \in {<<v, t>> \in ConvertValues \X SupportedTags :
                                ~convert_value(v, t).ok}}

\* C13: with a tag that is none of the ten supported tags convert fails for
\* every value, null and the empty string included, and the error is of
\* another kind than the errors raised for a bad value of a supported type.
C13_UnknownTagIsConfigurationError ==
    (/\ result.op = "convert_value"
     /\ result.args.expected_type \in UnsupportedTags) =>
        /\ ~result.ret.ok
        /\ result.ret.kind \notin PerValueErrorKinds

(***************************************************************************)
(* Digital Product Passport views (services/dpp).  A section view is built  *)
(* from JSON-like values: Null, Str, Int_, Float_, Bool, List(l) and        *)
(* Dict(d), d a function from keys to values.                               *)
(***************************************************************************)
Dict(d) == [t |-> "dict", d |-> d]

\* d.get(key, default)
get(d, key, default) == IF key \in DOMAIN d.d THEN d.d[key] ELSE default

\* the dict built by assigning the <<key, value>> items in order
dict_of(items) ==
    LET keys == {items[i][1] : i \in 1..Len(items)}
        last(k) == CHOOSE i \in 1..Len(items) :
                        /\ items[i][1] = k
                        /\ \A j \in (i+1)..Len(items) : items[j][1] # k
    IN  Dict([k \in keys |-> items[last(k)][2]])

\* a key of the stored form that is left out reads as None
json_get(text) == IF text = Absent THEN Null ELSE Str(text)

(***************************************************************************)
(* config.py                                                                *)
(***************************************************************************)
SubmodelIdentifiers ==
    [NAMEPLATE |-> "https://admin-shell.io/idta/SubmodelTemplate/DigitalNameplate/3/0",
     TECHNICAL_DATA |-> "https://admin-shell.io/ZVEI/TechnicalData/Submodel/1/2",
     CARBON_FOOTPRINT |-> "https://admin-shell.io/idta/SubmodelTemplate/CarbonFootprint/0/9",
     CONTACT |-> "https://admin-shell.io/idta/SubmodelTemplate/ContactInformation/1/0",
     DOCUMENTATION |-> "https://admin-shell.io/idta/SubmodelTemplate/HandoverDocumentation/1/0",
     HIERARCHY |-> "https://admin-shell.io/idta/SubmodelTemplate/HierarchicalStructuresBoM/1/1",
     ASSET_LOCATION |-> "https://admin-shell.io/idta/SubmodelTemplate/DataModelforAssetLocation/1/0",
     TIME_SERIES |-> "https://admin-shell.io/idta/SubmodelTemplate/TimeSeries/1/1"]

\* SubmodelIdentifiers.<name>: a name the class does not define is an AttributeError
getattr(class, name) ==
    IF name \in DOMAIN class THEN Ok(class[name])
    ELSE Fail("AttributeError", <<"type object has no attribute", name>>)

STATUS_AVAILABLE == "available"
STATUS_INCOMPLETE == "incomplete"
STATUS_UNAVAILABLE == "unavailable"

Requirements(required, optional, title) ==
    [required |-> required, optional |-> optional, title |-> title]

SECTION_REQUIREMENTS ==
    << <<"identification",
         Requirements(<<SubmodelIdentifiers.NAMEPLATE>>, <<>>, "Product Identification")>>,
       <<"technical",
         Requirements(<<SubmodelIdentifiers.TECHNICAL_DATA>>, <<>>, "Technical Data")>>,
       <<"sustainability",
         Requirements(<<SubmodelIdentifiers.CARBON_FOOTPRINT>>, <<>>, "Environmental Impact")>>,
       <<"business",
         Requirements(<<SubmodelIdentifiers.CONTACT>>, <<>>, "Business Information")>>,
       <<"materials",
         Requirements(<<SubmodelIdentifiers.HIERARCHY>>, <<>>, "Materials & Composition")>>,
       <<"documentation",
         Requirements(<<SubmodelIdentifiers.DOCUMENTATION>>, <<>>, "Documentation")>>,
       <<"compliance",
         Requirements(<<SubmodelIdentifiers.NAMEPLATE>>, <<>>, "Compliance & Standards")>>,
       <<"location",
         Requirements(<<SubmodelIdentifiers.ASSET_LOCATION>>, <<>>, "Asset Location")>>,
       <<"usage",
         Requirements(<<SubmodelIdentifiers.TIME_SERIES>>, <<>>, "Usage Data")>> >>

(***************************************************************************)
(* The aggregate a section is computed from: the reply of get_asset_by_id,  *)
(* its "submodels" a list of resolved submodels and unresolved references.  *)
(***************************************************************************)
\* sm.get("administration", {}).get("templateId")
template_id_of(sm) ==
    IF "administration" \in DOMAIN sm /\ sm.administration # NoAdministration
    THEN sm.administration.templateId ELSE Absent

\* sm.get("idShort")
id_short_of(sm) == IF "idShort" \in DOMAIN sm THEN sm.idShort ELSE Absent

\* a listing that reports a section as soon as the aggregate has any submodel
get_available_sections_any_submodel(aas_data) ==
    LET info(section_id, requirements) ==
            IF aas_data.submodels # <<>>
            THEN << [id |-> section_id, title |-> requirements.title,
                     status |-> STATUS_AVAILABLE] >>
            ELSE <<>>
    IN  FlattenSeq([i \in 1..Len(SECTION_REQUIREMENTS) |->
            info(SECTION_REQUIREMENTS[i][1], SECTION_REQUIREMENTS[i][2])])

get_available_sections(aas_data) ==
    LET submodels == aas_data.submodels
        available_template_ids ==
            {template_id_of(submodels[i]) : i \in 1..Len(submodels)} \ {Absent, ""}
        present(ids) == {i \in 1..Len(ids) : ids[i] \in available_template_ids}
        info(section_id, requirements) ==
            LET required_templates == requirements.required
                has_required ==
                    present(required_templates) = DOMAIN required_templates
            IN  IF has_required /\ required_templates # <<>>
                THEN << [id |-> section_id, title |-> requirements.title,
                         status |-> STATUS_AVAILABLE] >>
                ELSE IF present(requirements.optional) # {}
                THEN << [id |-> section_id, title |-> requirements.title,
                         status |-> STATUS_INCOMPLETE] >>
                ELSE <<>>
    IN  FlattenSeq([i \in 1..Len(SECTION_REQUIREMENTS) |->
            info(SECTION_REQUIREMENTS[i][1], SECTION_REQUIREMENTS[i][2])])

(***************************************************************************)
(* BaseDPPSection: the lookup tables of a processor and the generic         *)
(* projection of a submodel.  The stored form of the model carries no       *)
(* displayName, description, semanticId or contentType, so the keys copied  *)
(* from them are never written and contentType reads as None.               *)
(***************************************************************************)
\* a mapping that keeps the first submodel assigned under a key
BaseDPPSection_first_wins(aas_data) ==
    LET submodels == aas_data.submodels
        with_template == SelectSeq(submodels,
                            LAMBDA sm : template_id_of(sm) \notin {Absent, ""})
        with_id_short == SelectSeq(submodels,
                            LAMBDA sm : id_short_of(sm) \notin {Absent, ""})
        backwards(seq) == [i \in 1..Len(seq) |-> seq[Len(seq) + 1 - i]]
    IN  [aas_data |-> aas_data,
         submodels |->
            dict_of(backwards([i \in 1..Len(with_template) |->
                <<template_id_of(with_template[i]), with_template[i]>>])).d,
         submodel_by_id_short |->
            dict_of(backwards([i \in 1..Len(with_id_short) |->
                <<id_short_of(with_id_short[i]), with_id_short[i]>>])).d]

\* self.submodels and self.submodel_by_id_short: each submodel of the list is
\* assigned under its key in turn
BaseDPPSection(aas_data) ==
    LET submodels == aas_data.submodels
        with_template == SelectSeq(submodels,
                            LAMBDA sm : template_id_of(sm) \notin {Absent, ""})
        with_id_short == SelectSeq(submodels,
                            LAMBDA sm : id_short_of(sm) \notin {Absent, ""})
    IN  [aas_data |-> aas_data,
         submodels |->
            dict_of([i \in 1..Len(with_template) |->
                <<template_id_of(with_template[i]), with_template[i]>>]).d,
         submodel_by_id_short |->
            dict_of([i \in 1..Len(with_id_short) |->
                <<id_short_of(with_id_short[i]), with_id_short[i]>>]).d]

\* self.get_submodel(template_id): None when no submodel has the template id
get_submodel(self, template_id) ==
    IF template_id \in DOMAIN self.submodels THEN self.submodels[template_id] ELSE Null

process_property(prop) ==
    IF prop.idShort = Absent THEN Null
    ELSE LET fields == ("idShort" :> Str(prop.idShort))
                       @@ ("modelType" :> Str(prop.modelType))
         IN  CASE prop.modelType = "MultiLanguageProperty" ->
                    LET values == IF prop.value = Null THEN <<>> ELSE prop.value.l
                        kept == SelectSeq(values,
                                    LAMBDA v : v.language # "" /\ v.text # "")
                    IN  IF kept = <<>> THEN Null
                        ELSE Dict(fields @@ ("value" :>
                                dict_of([i \in 1..Len(kept) |->
                                    <<kept[i].language, Str(kept[i].text)>>])))
               [] prop.modelType = "File" ->
                    IF prop.value = Null \/ prop.value = Str("") THEN Null
                    ELSE Dict(fields @@ ("value" :> prop.value)
                                     @@ ("contentType" :> Null))
               [] OTHER ->
                    IF prop.value = Null THEN Null
                    ELSE LET value == prop.value
                             value_type == prop.valueType
                             converted ==
                                CASE value_type = "xs:integer" ->
                                        Bind(py_int(value), LAMBDA parsed :
                                            IF parsed.ok THEN Int_(parsed.v)
                                            ELSE value)
                                  [] value_type \in {"xs:double", "xs:float"} ->
                                        Bind(py_float(value), LAMBDA parsed :
                                            IF parsed.ok THEN Float_(parsed.v)
                                            ELSE value)
                                  [] value_type = "xs:boolean" ->
                                        Bool(py_lower(value.s) \in {"true", "1", "yes"})
                                  [] OTHER -> Str(py_str(value))
                         IN  Dict(fields @@ ("valueType" :> json_get(value_type))
                                         @@ ("value" :> converted))

PropertyTypes == {"Property", "MultiLanguageProperty", "File"}

\* the value of a key that is not written
Missing == [t |-> "missing"]

\* a dict of the entries that are written
only_present(fields) ==
    Dict([k \in {key \in DOMAIN fields : fields[key] # Missing} |-> fields[k]])

process_reference(ref_element) ==
    IF ref_element.idShort = Absent THEN Null
    ELSE only_present(("idShort" :> Str(ref_element.idShort))
                 @@ ("modelType" :> Str("ReferenceElement"))
                 @@ ("value" :> IF ref_element.value = Null THEN Missing
                                ELSE ref_element.value))

process_range(range_element) ==
    IF range_element.idShort = Absent THEN Null
    ELSE only_present(("idShort" :> Str(range_element.idShort))
                 @@ ("modelType" :> Str("Range"))
                 @@ ("valueType" :> json_get(range_element.valueType))
                 @@ ("min" :> IF range_element.min = Null THEN Missing
                              ELSE range_element.min)
                 @@ ("max" :> IF range_element.max = Null THEN Missing
                              ELSE range_element.max))

process_blob(blob_element) ==
    IF blob_element.idShort = Absent THEN Null
    ELSE only_present(("idShort" :> Str(blob_element.idShort))
                 @@ ("modelType" :> Str("Blob"))
                 @@ ("contentType" :> json_get(blob_element.contentType))
                 @@ ("value" :> IF blob_element.value = Null THEN Missing
                                ELSE blob_element.value))

\* a container all of whose children were dropped is kept as it is
nothing_survives_never(elements) == FALSE

\* "if not elements: return None"
nothing_survives(elements) == elements = <<>>

RECURSIVE process_collection(_)
RECURSIVE process_list(_)
RECURSIVE process_entity(_)
process_collection(collection) ==
    IF collection.idShort = Absent THEN Null
    ELSE LET processed(element) ==
                CASE element.modelType \in PropertyTypes -> process_property(element)
                  [] element.modelType = "SubmodelElementCollection" ->
                        process_collection(element)
                  [] element.modelType = "SubmodelElementList" -> process_list(element)
                  [] element.modelType = "Entity" -> process_entity(element)
                  [] element.modelType = "ReferenceElement" ->
                        process_reference(element)
                  [] element.modelType = "Range" -> process_range(element)
                  [] element.modelType = "Blob" -> process_blob(element)
                  [] OTHER -> Null
             children == collection.children
         IN  Bind([i \in 1..Len(children) |-> processed(children[i])],
               LAMBDA results :
                 LET kept == SelectSeq([i \in 1..Len(children) |-> i],
                                LAMBDA i : /\ children[i].idShort \notin {Absent, ""}
                                           /\ results[i] # Null)
                 IN  IF nothing_survives(kept) THEN Null
                     ELSE Dict(("idShort" :> Str(collection.idShort))
                               @@ ("modelType" :> Str(collection.modelType))
                               @@ ("elements" :>
                                    dict_of([n \in 1..Len(kept) |->
                                        <<children[kept[n]].idShort,
                                          results[kept[n]]>>]))))

\* orderRelevant is written to the stored form only when it is false; the
\* lists of the model keep the default
process_list(list_element) ==
    IF list_element.idShort = Absent THEN Null
    ELSE LET processed(element) ==
                CASE element.modelType \in PropertyTypes -> process_property(element)
                  [] element.modelType = "SubmodelElementCollection" ->
                        process_collection(element)
                  [] element.modelType = "Entity" -> process_entity(element)
                  [] element.modelType = "ReferenceElement" ->
                        process_reference(element)
                  [] element.modelType = "Range" -> process_range(element)
                  [] element.modelType = "Blob" -> process_blob(element)
                  [] OTHER -> Null
             children == list_element.children
         IN  Bind([i \in 1..Len(children) |-> processed(children[i])],
               LAMBDA results :
                 LET kept == SelectSeq(results, LAMBDA item : item # Null)
                 IN  IF nothing_survives(kept) THEN Null
                     ELSE Dict(("idShort" :> Str(list_element.idShort))
                               @@ ("modelType" :> Str("SubmodelElementList"))
                               @@ ("orderRelevant" :> Bool(FALSE))
                               @@ ("elements" :> List(kept))))

\* an Entity is kept whatever becomes of its statements; "statements" is
\* written when some statement is kept
process_entity(entity) ==
    IF entity.idShort = Absent THEN Null
    ELSE LET processed(statement) ==
                CASE statement.modelType \in PropertyTypes ->
                        process_property(statement)
                  [] statement.modelType = "SubmodelElementCollection" ->
                        process_collection(statement)
                  [] statement.modelType = "Entity" -> process_entity(statement)
                  [] statement.modelType = "ReferenceElement" ->
                        process_reference(statement)
                  [] OTHER -> Null
             children == entity.children
         IN  Bind([i \in 1..Len(children) |-> processed(children[i])],
               LAMBDA results :
                 LET statements == SelectSeq(results, LAMBDA item : item # Null)
                 IN  only_present(("idShort" :> Str(entity.idShort))
                             @@ ("modelType" :> Str("Entity"))
                             @@ ("entityType" :> json_get(entity.entityType))
                             @@ ("statements" :> IF statements = <<>> THEN Missing
                                                 ELSE List(statements))))

\* an Operation is skipped
process_submodel(submodel) ==
    LET processed(element) ==
            CASE element.modelType \in PropertyTypes -> process_property(element)
              [] element.modelType = "SubmodelElementCollection" ->
                    process_collection(element)
              [] element.modelType = "SubmodelElementList" -> process_list(element)
              [] element.modelType = "Entity" -> process_entity(element)
              [] element.modelType = "ReferenceElement" -> process_reference(element)
              [] element.modelType = "Range" -> process_range(element)
              [] element.modelType = "Blob" -> process_blob(element)
              [] OTHER -> Null
        children == submodel.submodelElements
        administration == IF submodel.administration = NoAdministration
                          THEN AdministrativeInformation(Absent, Absent)
                          ELSE submodel.administration
    IN  Bind([i \in 1..Len(children) |-> processed(children[i])],
          LAMBDA results :
            LET kept == SelectSeq([i \in 1..Len(children) |-> i],
                            LAMBDA i : /\ children[i].idShort \notin {Absent, ""}
                                       /\ results[i] # Null)
            IN  Dict(("metadata" :>
                        Dict(("id" :> json_get(submodel.id))
                             @@ ("idShort" :> json_get(submodel.idShort))
                             @@ ("version" :> json_get(administration.version))
                             @@ ("revision" :> Null)
                             @@ ("templateId" :> json_get(administration.templateId))))
                     @@ ("elements" :>
                        dict_of([n \in 1..Len(kept) |->
                            <<children[kept[n]].idShort, results[kept[n]]>>]))))

(***************************************************************************)
(* The section processors.  process returns Ok(view), Ok(Null) for None,    *)
(* or the exception it raises.                                              *)
(***************************************************************************)
\* d.get(key1, {}).get(key2, default)
get2(d, key1, key2, default) == get(get(d, key1, Dict(EmptyDict)), key2, default)

\* a filter that lets every entry through
without_nothing(d, keys) == d

\* the entries of a dict whose key is not in keys
without(d, keys) == Dict([k \in DOMAIN d.d \ keys |-> d.d[k]])

View(title, data) == Ok([title |-> title, data |-> data])

\* a stored element as the dict json.loads returns
RECURSIVE raw_json(_)
\* element.get("value"): the payload of a stored element
json_value(element) ==
    CASE element.modelType \in {"SubmodelElementCollection", "SubmodelElementList"} ->
            List([i \in 1..Len(element.children) |-> raw_json(element.children[i])])
      [] element.modelType = "MultiLanguageProperty" /\ element.value # Null ->
            List([i \in 1..Len(element.value.l) |->
                Dict(("language" :> Str(element.value.l[i].language))
                     @@ ("text" :> Str(element.value.l[i].text)))])
      [] OTHER -> element.value

raw_json(element) ==
    Dict([k \in {"modelType"}
                \cup (IF element.idShort = Absent THEN {} ELSE {"idShort"})
                \cup (IF element.valueType = Absent THEN {} ELSE {"valueType"})
                \cup (IF json_value(element) = Null THEN {} ELSE {"value"}) |->
            CASE k = "modelType" -> Str(element.modelType)
              [] k = "idShort" -> Str(element.idShort)
              [] k = "valueType" -> Str(element.valueType)
              [] OTHER -> json_value(element)])

IdentificationSection_process(self) ==
    LET nameplate == get_submodel(self, SubmodelIdentifiers.NAMEPLATE)
    IN  IF nameplate = Null THEN Ok(Null)
        ELSE
        Bind(process_submodel(nameplate), LAMBDA processed_nameplate :
        LET elements == get(processed_nameplate, "elements", Dict(EmptyDict))
            value(name) == get2(elements, name, "value", Null)
            extracted_keys ==
                {"ManufacturerProductDesignation", "ManufacturerName",
                 "ManufacturerProductFamily", "ManufacturerProductType",
                 "SerialNumber", "ProductArticleNumberOfManufacturer",
                 "YearOfConstruction", "CountryOfOrigin", "DateOfManufacture",
                 "CompanyLogo", "OrderCodeOfManufacturer", "URIOfTheProduct",
                 "HardwareVersion", "SoftwareVersion", "FirmwareVersion"}
            additional_data ==
                Dict(("metadata" :> get(processed_nameplate, "metadata", Dict(EmptyDict)))
                     @@ ("elements" :> without(elements, extracted_keys)))
        IN  View("Product Identification",
              Dict(("product" :>
                        Dict(("name" :> value("ManufacturerProductDesignation"))
                             @@ ("type" :> value("ManufacturerProductType"))
                             @@ ("serial" :> value("SerialNumber"))
                             @@ ("articleNumber" :>
                                    value("ProductArticleNumberOfManufacturer"))
                             @@ ("yearOfConstruction" :> value("YearOfConstruction"))
                             @@ ("countryOfOrigin" :> value("CountryOfOrigin"))
                             @@ ("manufacturingDate" :> value("DateOfManufacture"))
                             @@ ("image" :> value("CompanyLogo"))
                             @@ ("orderCode" :> value("OrderCodeOfManufacturer"))
                             @@ ("uri" :> value("URIOfTheProduct"))))
                   @@ ("manufacturer" :>
                        Dict(("name" :> value("ManufacturerName"))
                             @@ ("productFamily" :> value("ManufacturerProductFamily"))
                             @@ ("logo" :> value("CompanyLogo"))))
                   @@ ("versions" :>
                        Dict(("hardware" :> value("HardwareVersion"))
                             @@ ("software" :> value("SoftwareVersion"))
                             @@ ("firmware" :> value("FirmwareVersion"))))
                   @@ ("additionalData" :> additional_data))))

\* SubmodelIdentifiers defines CONTACT, not CONTACT_INFORMATION: the first
\* statement of process raises on every aggregate and the rest never runs
BusinessInfoSection_process(self) ==
    LET template_id == getattr(SubmodelIdentifiers, "CONTACT_INFORMATION")
    IN  IF ~template_id.ok THEN template_id
        ELSE IF get_submodel(self, template_id.v) = Null THEN Ok(Null)
        ELSE View("Business Information", Dict(EmptyDict))

TechnicalDataSection_process(self) ==
    LET tech_data == get_submodel(self, SubmodelIdentifiers.TECHNICAL_DATA)
    IN  IF tech_data = Null THEN Ok(Null)
        ELSE
        Bind(process_submodel(tech_data), LAMBDA processed_data :
        LET elements == get(processed_data, "elements", Dict(EmptyDict))
            general_info == get2(elements, "GeneralInformation", "elements", Dict(EmptyDict))
            classifications ==
                get2(elements, "ProductClassifications", "elements", Dict(EmptyDict))
            tech_props == get2(elements, "TechnicalProperties", "elements", Dict(EmptyDict))
            further_info == get2(elements, "FurtherInformation", "elements", Dict(EmptyDict))
            summary ==
                Dict(("productName" :>
                        get2(general_info, "ManufacturerProductDesignation", "value", Null))
                     @@ ("manufacturer" :>
                        get2(general_info, "ManufacturerName", "value", Null))
                     @@ ("productImage" :> get2(general_info, "ProductImage", "value", Null))
                     @@ ("articleNumber" :>
                        get2(general_info, "ManufacturerArticleNumber", "value", Null))
                     @@ ("orderCode" :>
                        get2(general_info, "ManufacturerOrderCode", "value", Null)))
            extracted_keys == {"GeneralInformation", "ProductClassifications",
                               "TechnicalProperties", "FurtherInformation"}
            filtered_elements == without(elements, extracted_keys)
            additional_data ==
                Dict(("metadata" :> get(processed_data, "metadata", Dict(EmptyDict)))
                     @@ (IF filtered_elements = Dict(EmptyDict) THEN EmptyDict
                         ELSE ("elements" :> filtered_elements)))
        IN  View("Technical Data",
              Dict(("summary" :> summary)
                   @@ ("generalInformation" :> general_info)
                   @@ ("classifications" :>
                        get(classifications, "ProductClassificationItem", Dict(EmptyDict)))
                   @@ ("technicalProperties" :> tech_props)
                   @@ ("furtherInformation" :> further_info)
                   @@ ("additionalData" :> additional_data))))

SustainabilitySection_process(self) ==
    LET carbon == get_submodel(self, SubmodelIdentifiers.CARBON_FOOTPRINT)
    IN  IF carbon = Null THEN Ok(Null)
        ELSE
        Bind(process_submodel(carbon), LAMBDA processed_carbon :
        LET elements == get(processed_carbon, "elements", Dict(EmptyDict))
            pcf == get2(elements, "ProductCarbonFootprint", "elements", Dict(EmptyDict))
            tcf == get2(elements, "TransportCarbonFootprint", "elements", Dict(EmptyDict))
            extracted_keys == {"ProductCarbonFootprint", "TransportCarbonFootprint"}
            filtered_elements == without(elements, extracted_keys)
            additional_data ==
                Dict(("metadata" :> get(processed_carbon, "metadata", Dict(EmptyDict)))
                     @@ (IF filtered_elements = Dict(EmptyDict) THEN EmptyDict
                         ELSE ("elements" :> filtered_elements)))
        IN  IF pcf = Dict(EmptyDict) /\ tcf = Dict(EmptyDict) THEN Ok(Null)
            ELSE View("Environmental Impact",
              Dict(("carbonFootprint" :>
                    Dict(("product" :>
                            Dict(("value" :> get2(pcf, "PCFCO2eq", "value", Null))
                                 @@ ("unit" :> Str("kg CO2 eq"))
                                 @@ ("calculationMethod" :>
                                        get2(pcf, "PCFCalculationMethod", "value", Null))
                                 @@ ("validFrom" :> get2(pcf, "PublicationDate", "value", Null))
                                 @@ ("validUntil" :> get2(pcf, "ExpirationDate", "value", Null))
                                 @@ ("lifecycle" :>
                                        Dict(("phases" :>
                                                get2(pcf, "PCFLifeCyclePhase", "value", Null))
                                             @@ ("reference" :>
                                                get2(pcf, "PCFReferenceValueForCalculation",
                                                     "value", Null))
                                             @@ ("quantity" :>
                                                get2(pcf, "PCFQuantityOfMeasureForCalculation",
                                                     "value", Null))))
                                 @@ ("explanatoryStatement" :>
                                        get2(pcf, "ExplanatoryStatement", "value", Null))))
                         @@ ("transport" :>
                            Dict(("value" :> get2(tcf, "TCFCO2eq", "value", Null))
                                 @@ ("unit" :> Str("kg CO2 eq"))
                                 @@ ("calculationMethod" :>
                                        get2(tcf, "TCFCalculationMethod", "value", Null))
                                 @@ ("validFrom" :> get2(tcf, "PublicationDate", "value", Null))
                                 @@ ("validUntil" :> get2(tcf, "ExpirationDate", "value", Null))
                                 @@ ("reference" :>
                                        get2(tcf, "TCFReferenceValueForCalculation",
                                             "value", Null))
                                 @@ ("quantity" :>
                                        get2(tcf, "TCFQuantityOfMeasureForCalculation",
                                             "value", Null))
                                 @@ ("processes" :>
                                        get2(tcf, "TCFProcessesForGreenhouseGasEmissionInATransportService",
                                             "value", Null))
                                 @@ ("explanatoryStatement" :>
                                        get2(tcf, "ExplanatoryStatement", "value", Null))))))
                   @@ ("additionalData" :> additional_data))))

\* bool(v) of a JSON value
truthy(v) ==
    CASE v = Null -> FALSE
      [] v.t = "str" -> v.s # ""
      [] v.t = "list" -> v.l # <<>>
      [] v.t = "dict" -> DOMAIN v.d # {}
      [] v.t = "bool" -> v.b
      [] v.t = "int" -> v.i # 0
      [] OTHER -> TRUE

\* "for prop in element.get("value", []): prop.get(...)": the items as dicts;
\* the items of a text are its characters, which have no get
props_of(element) ==
    LET value == json_value(element)
    IN  CASE value = Null -> Ok(<<>>)
          [] value.t = "list" -> Ok(value.l)
          [] value.t = "str" /\ value.s # "" ->
                Fail("AttributeError", <<"'str' object has no attribute", "get">>)
          [] OTHER -> Ok(<<>>)

\* the first element of the list with the idShort, None when there is none
first_with_id_short(elements, id_short) ==
    LET hits == SelectSeq(elements, LAMBDA element : element.idShort = id_short)
    IN  IF hits = <<>> THEN Null ELSE hits[1]

\* the search terms of ComplianceSection that the lower-cased idShort contains
IdShortTerms ==
    ("CECertificate" :> {"certif"}) @@ ("IsoNorm" :> {"norm", "iso"})

terms_in(id_short) ==
    IF id_short \in DOMAIN IdShortTerms THEN IdShortTerms[id_short] ELSE {}

\* the marking built from the properties of one item of Markings
marking_data(props) ==
    LET prop_id(prop) == IF get(prop, "idShort", Null) = Null THEN Absent
                         ELSE get(prop, "idShort", Null).s
        clean_prop(prop) ==
            Dict(("value" :> get(prop, "value", Null))
                 @@ ("modelType" :> get(prop, "modelType", Null)))
        last_value(id) ==
            LET hits == SelectSeq(props, LAMBDA prop : prop_id(prop) = id)
            IN  IF hits = <<>> THEN Null ELSE get(hits[Len(hits)], "value", Null)
    IN  Dict(("properties" :>
                dict_of([i \in 1..Len(props) |->
                    <<prop_id(props[i]), clean_prop(props[i])>>]))
             @@ ("name" :> last_value("MarkingName"))
             @@ ("file" :> last_value("MarkingFile"))
             @@ ("designation" :> last_value("DesignationOfCertificateOrApproval"))
             @@ ("issueDate" :> last_value("IssueDate"))
             @@ ("expiryDate" :> last_value("ExpiryDate"))
             @@ ("additionalText" :> last_value("MarkingAdditionalText")))

ComplianceSection_process(self) ==
    LET nameplate == get_submodel(self, SubmodelIdentifiers.NAMEPLATE)
    IN  IF nameplate = Null THEN Ok(Null)
        ELSE
        LET markings_element ==
                first_with_id_short(nameplate.submodelElements, "Markings")
            marking_items ==
                IF markings_element # Null
                   /\ markings_element.modelType = "SubmodelElementList"
                THEN markings_element.children ELSE <<>>
            item_props == [i \in 1..Len(marking_items) |-> props_of(marking_items[i])]
            populated(marking) ==
                \/ truthy(get(marking, "name", Null))
                \/ truthy(get(marking, "file", Null))
                \/ truthy(get(marking, "designation", Null))
            markings ==
                SelectSeq([i \in 1..Len(item_props) |-> marking_data(item_props[i].v)],
                          populated)
            asset_specific_element ==
                first_with_id_short(nameplate.submodelElements, "AssetSpecificProperties")
            asset_props == IF asset_specific_element = Null THEN Ok(<<>>)
                           ELSE props_of(asset_specific_element)
            id_short(prop) == IF get(prop, "idShort", Null) = Null THEN ""
                              ELSE get(prop, "idShort", Null).s
            listed == SelectSeq(asset_props.v,
                        LAMBDA prop : /\ get(prop, "modelType", Null) \in
                                            {Str(type) : type \in PropertyTypes}
                                      /\ "value" \in DOMAIN prop.d)
            clean_prop(prop) ==
                Dict(("name" :> get(prop, "idShort", Null))
                     @@ ("value" :> get(prop, "value", Null))
                     @@ ("modelType" :> get(prop, "modelType", Null)))
            is_certification(prop) ==
                terms_in(id_short(prop)) \cap {"certif", "compliance", "conform"} # {}
            is_standard(prop) ==
                /\ ~is_certification(prop)
                /\ terms_in(id_short(prop)) \cap {"standard", "norm", "iso"} # {}
            cleaned(props) == [i \in 1..Len(props) |-> clean_prop(props[i])]
        IN  IF \E i \in 1..Len(item_props) : ~item_props[i].ok
            THEN item_props[CHOOSE i \in 1..Len(item_props) :
                    /\ ~item_props[i].ok
                    /\ \A j \in 1..(i-1) : item_props[j].ok]
            ELSE IF ~asset_props.ok THEN asset_props
            ELSE View("Compliance & Standards",
                    Dict(("markings" :> List(markings))
                         @@ ("certifications" :>
                                List(cleaned(SelectSeq(listed, is_certification))))
                         @@ ("standards" :>
                                List(cleaned(SelectSeq(listed, is_standard))))))

\* SubmodelIdentifiers defines HIERARCHY, not HIERARCHICAL_STRUCTURE: the first
\* statement of process raises on every aggregate and the rest never runs
MaterialSection_process(self) ==
    LET template_id == getattr(SubmodelIdentifiers, "HIERARCHICAL_STRUCTURE")
    IN  IF ~template_id.ok THEN template_id
        ELSE IF get_submodel(self, template_id.v) = Null THEN Ok(Null)
        ELSE View("Materials & Composition", Dict(EmptyDict))

\* The catalog of this development has no Handover Documentation, Asset
\* Location or Time Series template: on its aggregates these three processors
\* end at their lookup, and the view of the other branch is not modelled.
DocumentationSection_process(self) ==
    IF get_submodel(self, SubmodelIdentifiers.DOCUMENTATION) = Null THEN Ok(Null)
    ELSE View("Documentation", Dict(EmptyDict))

LocationSection_process(self) ==
    IF get_submodel(self, SubmodelIdentifiers.ASSET_LOCATION) = Null THEN Ok(Null)
    ELSE View("Asset Location & Traceability", Dict(EmptyDict))

UsageSection_process(self) ==
    IF get_submodel(self, SubmodelIdentifiers.TIME_SERIES) = Null THEN Ok(Null)
    ELSE View("Usage Data", Dict(EmptyDict))

\* section id -> processor class, in the order of the dict
SECTION_PROCESSORS ==
    << <<"identification", "IdentificationSection">>,
       <<"compliance", "ComplianceSection">>,
       <<"technical", "TechnicalDataSection">>,
       <<"materials", "MaterialSection">>,
       <<"sustainability", "SustainabilitySection">>,
       <<"documentation", "DocumentationSection">>,
       <<"business", "BusinessInfoSection">>,
       <<"location", "LocationSection">>,
       <<"usage", "UsageSection">> >>

\* processor_class(aas_data).process()
process(processor_class, aas_data) ==
    LET self == BaseDPPSection(aas_data)
    IN  CASE processor_class = "IdentificationSection" -> IdentificationSection_process(self)
          [] processor_class = "ComplianceSection" -> ComplianceSection_process(self)
          [] processor_class = "TechnicalDataSection" -> TechnicalDataSection_process(self)
          [] processor_class = "MaterialSection" -> MaterialSection_process(self)
          [] processor_class = "SustainabilitySection" -> SustainabilitySection_process(self)
          [] processor_class = "DocumentationSection" -> DocumentationSection_process(self)
          [] processor_class = "BusinessInfoSection" -> BusinessInfoSection_process(self)
          [] processor_class = "LocationSection" -> LocationSection_process(self)
          [] processor_class = "UsageSection" -> UsageSection_process(self)

(***************************************************************************)
(* clean_nulls (services/dpp/utils.py).  A path is the text the f-strings   *)
(* build; a list item is addressed by its index in the list it is read from.*)
(***************************************************************************)
RECURSIVE clean_nulls_with_path(_, _, _)
clean_nulls_with_path(obj, current_path, preserve_paths) ==
    CASE obj.t = "dict" ->
            LET kept == {k \in DOMAIN obj.d :
                            \/ obj.d[k] # Null
                            \/ current_path \in preserve_paths
                            \/ (current_path \o "." \o k) \in preserve_paths}
            IN  Dict([k \in kept |->
                    clean_nulls_with_path(obj.d[k],
                        IF current_path # "" THEN current_path \o "." \o k ELSE k,
                        preserve_paths)])
      [] obj.t = "list" ->
            LET item_path(i) == current_path \o "[" \o ToString(i - 1) \o "]"
                kept == SelectSeq([i \in 1..Len(obj.l) |-> i],
                            LAMBDA i : \/ obj.l[i] # Null
                                       \/ item_path(i) \in preserve_paths)
            IN  List([n \in 1..Len(kept) |->
                    clean_nulls_with_path(obj.l[kept[n]], item_path(kept[n]),
                                          preserve_paths)])
      [] OTHER -> obj

\* a pruning that drops every null, whatever the preserve set
clean_nulls_drops_all(obj, preserve_paths) == clean_nulls_with_path(obj, "", {})

clean_nulls(obj, preserve_paths) == clean_nulls_with_path(obj, "", preserve_paths)

(***************************************************************************)
(* services/dpp/services.py.  found is what get_asset_by_id returned or     *)
(* raised, the "submodels" of a reply in the order in which the shell's     *)
(* reference set was iterated.                                              *)
(***************************************************************************)
Orders(S) == {order \in [1..Cardinality(S) -> S] : Range(order) = S}

found_assets(aas_id, asset, submodel) ==
    LET reply == get_asset_by_id(aas_id, asset, submodel)
    IN  IF reply.status # "ok" THEN {reply}
        ELSE {Returned([reply.value EXCEPT !.submodels = order]) :
                order \in Orders(reply.value.submodels)}

\* str(e) of an exception: the words of its message
message(e) == IF "about" \in DOMAIN e THEN <<e.msg>> \o e.about ELSE e.msg

\* raise ValueError(f"<prefix>: {str(e)}")
reraised(prefix, e) == Raised("ValueError", prefix, message(e))

get_dpp_sections(found) ==
    IF found.status # "ok" THEN reraised("Error retrieving DPP sections", found)
    ELSE Returned(get_available_sections(found.value))

get_dpp_section(found, section_id) ==
    LET prefix == "Error retrieving DPP section"
    IN  IF found.status # "ok" THEN reraised(prefix, found)
        ELSE IF ~dict_has(SECTION_PROCESSORS, section_id)
        THEN reraised(prefix, Raised("ValueError", "Section not recognized",
                                     <<section_id>>))
        ELSE Bind(process(dict_lookup(SECTION_PROCESSORS, section_id), found.value),
             LAMBDA section :
                IF ~section.ok THEN reraised(prefix, section)
                ELSE IF section.v = Null
                THEN reraised(prefix,
                        Raised("ValueError", "Required data for section not available",
                               <<section_id>>))
                ELSE Returned([section.v EXCEPT !.data = clean_nulls(@, {})]))

\* the loop over SECTION_PROCESSORS from its k-th entry on: the sections dict,
\* or the exception of the first processor that raises
RECURSIVE process_sections(_, _, _)
process_sections(k, aas_data, format) ==
    IF k > Len(SECTION_PROCESSORS) THEN Ok(EmptyDict)
    ELSE Bind(process(SECTION_PROCESSORS[k][2], aas_data), LAMBDA section :
            IF ~section.ok THEN section
            ELSE Bind(process_sections(k + 1, aas_data, format), LAMBDA rest :
                    IF ~rest.ok \/ section.v = Null THEN rest
                    ELSE Ok((SECTION_PROCESSORS[k][1] :>
                                IF format # "raw"
                                THEN [section.v EXCEPT !.data = clean_nulls(@, {})]
                                ELSE section.v) @@ rest.v)))

generate_complete_dpp(found, aas_id, format, now) ==
    LET prefix == "Error generating complete DPP"
    IN  IF found.status # "ok" THEN reraised(prefix, found)
        ELSE Bind(process_sections(1, found.value, format), LAMBDA sections :
                IF ~sections.ok THEN reraised(prefix, sections)
                ELSE Returned([id |-> aas_id, generated_at |-> now, format |-> format,
                               sections |-> sections.v,
                               metadata |->
                                    [generated_by |-> "DPP Service v1.0",
                                     generated_at |-> now,
                                     aas_version |->
                                        IF "administration" \in DOMAIN found.value
                                        THEN json_get(found.value.administration.version)
                                        ELSE Null,
                                     format |-> format,
                                     source_aas_id |-> aas_id]]))

(***************************************************************************)
(* api/routes/dpp.py: a ValueError of the service is answered 404, any      *)
(* other exception 500.                                                     *)
(***************************************************************************)
HTTP_404_NOT_FOUND == "404 Not Found"
HTTP_500_INTERNAL_SERVER_ERROR == "500 Internal Server Error"

HTTPException(e) ==
    Raised(IF e.status = "ValueError" THEN HTTP_404_NOT_FOUND
           ELSE HTTP_500_INTERNAL_SERVER_ERROR, e.msg, e.about)

list_dpp_sections(found, status_filter) ==
    LET sections == get_dpp_sections(found)
    IN  IF sections.status # "ok" THEN HTTPException(sections)
        ELSE IF status_filter \in {Absent, ""} THEN sections
        ELSE Returned(SelectSeq(sections.value, LAMBDA s : s.status = status_filter))

\* the parameters of services.get_dpp_section
get_dpp_section_parameters == <<"aas_id", "section_id", "session">>

\* the route passes aas_id, section_id, include_raw and session to a function
\* of three parameters: the call raises TypeError before the service runs
route_get_dpp_section(found, aas_id, section_id, include_raw) ==
    LET arguments == <<"aas_id", "section_id", "include_raw", "session">>
    IN  IF Len(arguments) # Len(get_dpp_section_parameters)
        THEN HTTPException(Raised("TypeError",
                "get_dpp_section() takes 3 positional arguments but 4 were given", <<>>))
        ELSE Bind(get_dpp_section(found, section_id), LAMBDA section :
                IF section.status # "ok" THEN HTTPException(section) ELSE section)

download_complete_dpp(found, aas_id, include_raw, now) ==
    Bind(generate_complete_dpp(found, aas_id, IF include_raw THEN "raw" ELSE "clean", now),
         LAMBDA dpp : IF dpp.status # "ok" THEN HTTPException(dpp) ELSE dpp)

(***************************************************************************)
(* SpecDpp: passport requests on a stored asset.  The store holds one       *)
(* asset whose shell references up to MaxSubmodels submodels instantiated   *)
(* from templates the passport knows (Digital Nameplate, twice, the second  *)
(* with its SerialNumber updated; Technical Data; Carbon Footprint; Contact *)
(* Information) or from another template, and possibly one submodel whose   *)
(* record is gone.                                                          *)
(***************************************************************************)
MaxSubmodels == 3

DigitalNameplate(serial) ==
    Submodel(SubmodelIdentifiers.NAMEPLATE, "Nameplate", "Template",
        AdministrativeInformation("3", Absent),
        << Property("SerialNumber", "xs:string", serial),
           Property("YearOfConstruction", "xs:integer", Str("2020")),
           MultiLanguageProperty("ManufacturerName",
                Langs(<<LangString("en", "ACME"), LangString("de", "ACME GmbH")>>)),
           Property("BatteryType", "xs:string", Str("Li-Ion")),
           SubmodelElementList("Markings",
                << SubmodelElementCollection(Absent,
                        << Property("MarkingName", "xs:string", Str("CE")),
                           Property("IssueDate", "xs:date", Null) >>) >>),
           SubmodelElementCollection("AssetSpecificProperties",
                << Property("CECertificate", "xs:string", Str("yes")),
                   Property("IsoNorm", "xs:string", Null),
                   Property("Weight", "xs:integer", Str("5")) >>) >>)

TechnicalData ==
    Submodel(SubmodelIdentifiers.TECHNICAL_DATA, "TechnicalData", "Template",
        AdministrativeInformation("1", Absent),
        << SubmodelElementCollection("GeneralInformation",
                << MultiLanguageProperty("ManufacturerName",
                        Langs(<<LangString("en", "ACME")>>)),
                   Property("ManufacturerArticleNumber", "xs:string", Null) >>),
           SubmodelElementCollection("TechnicalProperties",
                << Property("MaxSpeed", "xs:integer", Str("90")) >>),
           Property("Remark", "xs:string", Str("prototype")) >>)

CarbonFootprint ==
    Submodel(SubmodelIdentifiers.CARBON_FOOTPRINT, "CarbonFootprint", "Template",
        AdministrativeInformation("0", Absent),
        << SubmodelElementCollection("ProductCarbonFootprint",
                << Property("PCFCO2eq", "xs:double", Str("1.5")),
                   Property("PublicationDate", "xs:date", Null) >>) >>)

ContactInformation ==
    Submodel(SubmodelIdentifiers.CONTACT, "ContactInformations", "Template",
        AdministrativeInformation("1", Absent),
        << SubmodelElementCollection("ContactInformation",
                << Property("Street", "xs:string", Str("Main St")) >>) >>)

OtherTemplate ==
    Submodel(T2, "Other", "Template", AdministrativeInformation("1", Absent),
        << Property("MaxSpeed", "xs:integer", Null) >>)

\* the stored form of the instance of a template
instance_of(template, n) ==
    serialize_aas_to_json(
        instantiate_submodel(deserialize_aas_from_json(template), generate_id(n)))

\* submodel id -> stored submodel
DppSubmodels ==
    (generate_id(2) :> instance_of(DigitalNameplate(Null), 2))
    @@ (generate_id(3) :> instance_of(DigitalNameplate(Str("SN-2")), 3))
    @@ (generate_id(4) :> instance_of(TechnicalData, 4))
    @@ (generate_id(5) :> instance_of(CarbonFootprint, 5))
    @@ (generate_id(6) :> instance_of(ContactInformation, 6))
    @@ (generate_id(7) :> instance_of(OtherTemplate, 7))

\* the id of a submodel the shell references and the store has lost
LostId == generate_id(8)

\* the store after the asset was created and the submodels were attached
DppStore(submodel_ids, lost) ==
    LET created == create_asset_from_templates(<<>>, EmptyDict, EmptyTable,
                        EmptyTable, 0, 1)
        aas_id == generate_id(1)
    IN  [asset |-> [created.asset EXCEPT
                        ![aas_id].data.submodels = submodel_ids \cup lost],
         submodel |-> [id \in submodel_ids |-> Record(id, DppSubmodels[id], 1, 1)]]

InitDpp ==
    /\ \E submodel_ids \in SUBSET DOMAIN DppSubmodels, lost \in SUBSET {LostId} :
        /\ Cardinality(submodel_ids) <= MaxSubmodels
        /\ aas_asset = DppStore(submodel_ids, lost).asset
        /\ aas_submodel = DppStore(submodel_ids, lost).submodel
    /\ uuid_seq = 8
    /\ clock = 1
    /\ result = Request("none", Null, Returned(Null))
    /\ in_flight = {}

StatusFilters == {Absent, STATUS_AVAILABLE, STATUS_INCOMPLETE}

SectionIds == {SECTION_PROCESSORS[i][1] : i \in 1..Len(SECTION_PROCESSORS)}
                \cup {"warranty"}

\* the model follows one request to the store
Unanswered == result.op = "none"

ListDppSections ==
    /\ Unanswered
    /\ \E aas_id \in AasIds, status_filter \in StatusFilters :
        \E found \in found_assets(aas_id, aas_asset, aas_submodel) :
            /\ result' = Request("list_dpp_sections",
                    [aas_id |-> aas_id, status_filter |-> status_filter],
                    list_dpp_sections(found, status_filter))
            /\ UNCHANGED <<aas_asset, aas_submodel, uuid_seq, clock, in_flight>>

GetDppSection ==
    /\ Unanswered
    /\ \E aas_id \in AasIds, section_id \in SectionIds, include_raw \in BOOLEAN :
        \E found \in found_assets(aas_id, aas_asset, aas_submodel) :
            /\ result' = Request("get_dpp_section",
                    [aas_id |-> aas_id, section_id |-> section_id,
                     include_raw |-> include_raw],
                    route_get_dpp_section(found, aas_id, section_id, include_raw))
            /\ UNCHANGED <<aas_asset, aas_submodel, uuid_seq, clock, in_flight>>

\* services.get_dpp_section called as it is declared
CallGetDppSection ==
    /\ Unanswered
    /\ \E aas_id \in AasIds, section_id \in SectionIds :
        \E found \in found_assets(aas_id, aas_asset, aas_submodel) :
            /\ result' = Request("services.get_dpp_section",
                    [aas_id |-> aas_id, section_id |-> section_id, found |-> found],
                    get_dpp_section(found, section_id))
            /\ UNCHANGED <<aas_asset, aas_submodel, uuid_seq, clock, in_flight>>

DownloadCompleteDpp ==
    /\ Unanswered
    /\ \E aas_id \in AasIds, include_raw \in BOOLEAN :
        \E found \in found_assets(aas_id, aas_asset, aas_submodel) :
            /\ result' = Request("download_complete_dpp",
                    [aas_id |-> aas_id, include_raw |-> include_raw],
                    download_complete_dpp(found, aas_id, include_raw, clock))
            /\ UNCHANGED <<aas_asset, aas_submodel, uuid_seq, clock, in_flight>>

\* one section processor applied to the aggregate of a stored asset
ProcessSection ==
    /\ Unanswered
    /\ \E aas_id \in DOMAIN aas_asset, k \in 1..Len(SECTION_PROCESSORS) :
        \E found \in found_assets(aas_id, aas_asset, aas_submodel) :
            /\ result' = Request("process",
                    [section_id |-> SECTION_PROCESSORS[k][1], found |-> found],
                    process(SECTION_PROCESSORS[k][2], found.value))
            /\ UNCHANGED <<aas_asset, aas_submodel, uuid_seq, clock, in_flight>>

NextDpp ==
    \/ ListDppSections
    \/ GetDppSection
    \/ CallGetDppSection
    \/ DownloadCompleteDpp
    \/ ProcessSection

SpecDpp == InitDpp /\ [][NextDpp]_vars

(***************************************************************************)
(* C14 to C17: listing, fetching and downloading the passport.              *)
(***************************************************************************)
\* the template ids of the submodel records the stored shell references
stored_template_ids(aas_id) ==
    {aas_submodel[id].data.administration.templateId :
        id \in aas_asset[aas_id].data.submodels \cap DOMAIN aas_submodel}

\* the ids of the sections a listing reports with the status
listed_as(listing, status) ==
    {listing[i].id : i \in {j \in 1..Len(listing) : listing[j].status = status}}

\* C14: the listing of an asset reports a section as available exactly when
\* every required template id of the section is the administration.templateId
\* of a submodel of the aggregate, as incomplete exactly when that is not so
\* and an optional template id is, and not at all otherwise; with the shipped
\* SECTION_REQUIREMENTS no section is reported as incomplete.
C14_ListingFollowsRequirements ==
    (/\ result.op = "list_dpp_sections"
     /\ result.args.aas_id \in DOMAIN aas_asset) =>
        /\ result.ret.status = "ok"
        /\ listed_as(result.ret.value, STATUS_INCOMPLETE) = {}
        /\ result.args.status_filter = Absent =>
            \A template_ids \in {stored_template_ids(result.args.aas_id)} :
                /\ \A i \in 1..Len(SECTION_REQUIREMENTS) :
                    LET section_id == SECTION_REQUIREMENTS[i][1]
                        required == Range(SECTION_REQUIREMENTS[i][2].required)
                        optional == Range(SECTION_REQUIREMENTS[i][2].optional)
                        reported(status) ==
                            section_id \in listed_as(result.ret.value, status)
                    IN  /\ reported(STATUS_AVAILABLE) <=> required \subseteq template_ids
                        /\ reported(STATUS_INCOMPLETE) <=>
                                /\ ~(required \subseteq template_ids)
                                /\ optional \cap template_ids # {}
                /\ \A i, j \in 1..Len(result.ret.value) :
                    /\ dict_has(SECTION_REQUIREMENTS, result.ret.value[i].id)
                    /\ result.ret.value[i].status \in
                            {STATUS_AVAILABLE, STATUS_INCOMPLETE}
                    /\ result.ret.value[i].id = result.ret.value[j].id => i = j

\* an asset with a Nameplate and no Technical Data was listed: identification
\* is reported, technical is not, and a submodel of another template and a
\* lost reference are part of the aggregate
C14_Witness ==
    /\ result.op = "list_dpp_sections"
    /\ result.args.aas_id \in DOMAIN aas_asset
    /\ result.args.status_filter = Absent
    /\ result.ret.status = "ok"
    /\ "identification" \in listed_as(result.ret.value, STATUS_AVAILABLE)
    /\ "technical" \notin listed_as(result.ret.value, STATUS_AVAILABLE)
    /\ T2 \in stored_template_ids(result.args.aas_id)
    /\ LostId \in aas_asset[result.args.aas_id].data.submodels

\* the reply is a not-found whose reason has the words
not_found(ret, reason) ==
    /\ ret.status \in {"ValueError", HTTP_404_NOT_FOUND}
    /\ reason \in Range(ret.about)

\* the ids of the sections listed for the stored asset
listed_ids(aas_id) ==
    UNION {{sections.value[i].id : i \in 1..Len(sections.value)} :
            sections \in {get_dpp_sections(found) :
                            found \in found_assets(aas_id, aas_asset, aas_submodel)}}

\* C15: for an existing asset, fetching a recognized section whose required
\* template is absent from the aggregate is answered not-found with the reason
\* that the required data is not available, and the section is not listed;
\* fetching an unrecognized section id is answered not-found with the reason
\* that the section is not recognized; no such request fails in another way.
C15_AbsentSectionIsNotFound ==
    (/\ result.op \in {"get_dpp_section", "services.get_dpp_section"}
     /\ result.args.aas_id \in DOMAIN aas_asset) =>
        LET section_id == result.args.section_id
            required == Range(dict_lookup(SECTION_REQUIREMENTS, section_id).required)
        IN  IF ~dict_has(SECTION_PROCESSORS, section_id)
            THEN not_found(result.ret, "Section not recognized")
            ELSE ~(required \subseteq stored_template_ids(result.args.aas_id)) =>
                    /\ section_id \notin listed_ids(result.args.aas_id)
                    /\ not_found(result.ret, "Required data for section not available")

\* the sections whose processor yields a view for the aggregate
yields_view(aas_data) ==
    {SECTION_PROCESSORS[k][1] : k \in {i \in 1..Len(SECTION_PROCESSORS) :
        LET section == process(SECTION_PROCESSORS[i][2], aas_data)
        IN  section.ok /\ section.v # Null}}

\* C16: the download of an existing asset succeeds and its sections map has
\* exactly the section ids whose processor yields a view for the aggregate; a
\* section without its template or whose processing raises is left out.
C16_DownloadAlwaysSucceeds ==
    (/\ result.op = "download_complete_dpp"
     /\ result.args.aas_id \in DOMAIN aas_asset) =>
        /\ result.ret.status = "ok"
        /\ \E found \in found_assets(result.args.aas_id, aas_asset, aas_submodel) :
            DOMAIN result.ret.value.sections = yields_view(found.value)

\* a JSON value that holds null under a dict key or in a list slot
RECURSIVE has_null(_)
has_null(value) ==
    CASE value.t = "dict" ->
            \E k \in DOMAIN value.d : value.d[k] = Null \/ has_null(value.d[k])
      [] value.t = "list" ->
            \E i \in 1..Len(value.l) : value.l[i] = Null \/ has_null(value.l[i])
      [] OTHER -> FALSE

\* C17: the clean download of an asset has no null under any dict key or in
\* any list slot of any section's data, and the raw download of the same asset
\* returns each section's data as its processor produced it.
C17_CleanDropsNullsRawKeepsThem ==
    (/\ result.op = "download_complete_dpp"
     /\ result.args.aas_id \in DOMAIN aas_asset) =>
        /\ result.ret.status = "ok"
        /\ \E found \in found_assets(result.args.aas_id, aas_asset, aas_submodel) :
            \A k \in 1..Len(SECTION_PROCESSORS) :
                LET section_id == SECTION_PROCESSORS[k][1]
                    section == process(SECTION_PROCESSORS[k][2], found.value)
                IN  section_id \in DOMAIN result.ret.value.sections =>
                        IF result.args.include_raw
                        THEN result.ret.value.sections[section_id].data = section.v.data
                        ELSE ~has_null(result.ret.value.sections[section_id].data)

(***************************************************************************)
(* clean_nulls on its own.  SpecPrune calls it with every value of          *)
(* PruneValues and every preserve set over PrunePaths and records the call  *)
(* and what it returned in result; it starts where a first call has         *)
(* returned, and goes on by pruning what the last call returned.            *)
(***************************************************************************)
\* most items of a list in PruneValues
MaxItems == 2

PruneKeys == {"a", "b"}

PruneLeaves == {Null, Int_(1)}

DictsOver(values) ==
    {Dict(d) : d \in UNION {[keys -> values] : keys \in SUBSET PruneKeys}}

ListsOver(values) == {List(l) : l \in SeqsUpTo(values, MaxItems)}

\* dicts and lists of leaves
PruneFlat == DictsOver(PruneLeaves) \cup ListsOver(PruneLeaves)

\* dicts of leaves, dicts and lists; lists of leaves, dicts and lists
PruneValues ==
    PruneLeaves \cup PruneFlat
    \cup DictsOver(PruneLeaves \cup PruneFlat)
    \cup ListsOver(PruneLeaves \cup
            {Dict(EmptyDict), Dict("a" :> Null), List(<<Null>>)})

\* paths of entries of PruneValues, and ".b", which no child is addressed by
PrunePaths == {"a", "a.b", "a[0]", "[1]", ".b"}

\* result after clean_nulls(obj, preserve_paths)
Cleaned(obj, preserve_paths) ==
    Request("clean_nulls", [obj |-> obj, preserve_paths |-> preserve_paths],
            Returned(clean_nulls(obj, preserve_paths)))

InitPrune ==
    /\ aas_asset = EmptyTable
    /\ aas_submodel = EmptyTable
    /\ uuid_seq = 0
    /\ clock = 0
    /\ \E obj \in PruneValues, preserve_paths \in SUBSET PrunePaths :
        result = Cleaned(obj, preserve_paths)
    /\ in_flight = {}

\* what a call returned is pruned again, with any preserve set
CleanNulls ==
    \E preserve_paths \in SUBSET PrunePaths :
        /\ result' = Cleaned(result.ret.value, preserve_paths)
        /\ UNCHANGED <<aas_asset, aas_submodel, uuid_seq, clock, in_flight>>

NextPrune == CleanNulls

SpecPrune == InitPrune /\ [][NextPrune]_vars

(***************************************************************************)
(* C18 and C19: what pruning drops, and pruning twice.                      *)
(***************************************************************************)
\* the path of an entry: its parent's path joined with ".key" or "[i]"
key_path(parent, k) == IF parent = "" THEN k ELSE parent \o "." \o k

index_path(parent, i) == parent \o "[" \o ToString(i) \o "]"

\* value without the nulls whose own path is not in preserve_paths
RECURSIVE without_unlisted_nulls(_, _, _)
without_unlisted_nulls(value, path, preserve_paths) ==
    CASE value.t = "dict" ->
            LET kept == {k \in DOMAIN value.d :
                            \/ value.d[k] # Null
                            \/ key_path(path, k) \in preserve_paths}
            IN  Dict([k \in kept |->
                    without_unlisted_nulls(value.d[k], key_path(path, k),
                                           preserve_paths)])
      [] value.t = "list" ->
            LET kept == SelectSeq([i \in 1..Len(value.l) |-> i],
                            LAMBDA i : \/ value.l[i] # Null
                                       \/ index_path(path, i - 1) \in preserve_paths)
            IN  List([n \in 1..Len(kept) |->
                    without_unlisted_nulls(value.l[kept[n]],
                        index_path(path, kept[n] - 1), preserve_paths)])
      [] OTHER -> value

\* C18: clean_nulls drops a dict key or a list index exactly when its value
\* is null and its own path (the parent's path joined with ".key" or "[i]")
\* is not in preserve_paths; every other entry, empty dicts and lists
\* included, is kept.
C18_DropsExactlyUnlistedNulls ==
    result.op = "clean_nulls" =>
        result.ret = Returned(without_unlisted_nulls(result.args.obj, "",
                                    result.args.preserve_paths))

\* C19: pruning what clean_nulls returned, with the same preserve_paths,
\* returns it unchanged.
C19_PruningIsIdempotent ==
    result.op = "clean_nulls" =>
        clean_nulls(result.ret.value, result.args.preserve_paths)
            = result.ret.value

(***************************************************************************)
(* C20: submodels of one template.                                          *)
(***************************************************************************)
\* aas_data with, of the submodels that share a templateId, only the first
only_first(aas_data) ==
    LET submodels == aas_data.submodels
        kept == SelectSeq([i \in 1..Len(submodels) |-> i],
                    LAMBDA i : \A j \in 1..(i - 1) :
                        template_id_of(submodels[j]) # template_id_of(submodels[i]))
    IN  [aas_data EXCEPT !.submodels = [n \in 1..Len(kept) |-> submodels[kept[n]]]]

\* aas_data with, of the submodels that share a templateId, only the last
only_last(aas_data) ==
    LET submodels == aas_data.submodels
        kept == SelectSeq([i \in 1..Len(submodels) |-> i],
                    LAMBDA i : \A j \in (i + 1)..Len(submodels) :
                        template_id_of(submodels[j]) # template_id_of(submodels[i]))
    IN  [aas_data EXCEPT !.submodels = [n \in 1..Len(kept) |-> submodels[kept[n]]]]

\* the processor class registered for a section id
processor_of(section_id) == dict_lookup(SECTION_PROCESSORS, section_id)

template_ids_in(aas_data) ==
    {template_id_of(aas_data.submodels[i]) : i \in 1..Len(aas_data.submodels)}
        \ {Absent, ""}

\* the processor that ran, and every lookup by template id, gave what they
\* give on chosen
uses(chosen) ==
    /\ result.ret = process(processor_of(result.args.section_id), chosen)
    /\ \A template_id \in template_ids_in(result.args.found.value) :
            get_submodel(BaseDPPSection(result.args.found.value), template_id)
                = get_submodel(BaseDPPSection(chosen), template_id)

\* C20 as claimed: when two submodels of an aggregate carry the same
\* administration.templateId, every section processor and lookup by template
\* id uses the first of them in the aggregate's submodel order.
C20_FirstOfATemplateIsUsed ==
    result.op = "process" => uses(only_first(result.args.found.value))

\* C20, amended: when two submodels of an aggregate carry the same
\* administration.templateId, every section processor and lookup by template
\* id uses the last of them in the aggregate's submodel order.
C20_LastOfATemplateIsUsed ==
    result.op = "process" => uses(only_last(result.args.found.value))

\* a processor has run on an aggregate with two submodels of one template,
\* where the first and the last of them give different views
C20_Witness ==
    /\ result.op = "process"
    /\ result.ret.ok
    /\ only_first(result.args.found.value) # result.args.found.value
    /\ process(processor_of(result.args.section_id),
               only_first(result.args.found.value))
        # process(processor_of(result.args.section_id),
                  only_last(result.args.found.value))
    /\ result.ret = process(processor_of(result.args.section_id),
                            only_last(result.args.found.value))

(***************************************************************************)
(* Writers that overlap.  Each of update-submodel-elements, update-asset-   *)
(* metadata and attach-submodels reads its rows with session.get, builds    *)
(* the new JSON from what it read and writes it at session.commit; nothing  *)
(* between the two looks at the rows again.  SpecWriters splits the three   *)
(* requests at that point, with up to MaxWriters of them between read and   *)
(* commit, on the store the first instantiate-asset request with T1 left.   *)
(***************************************************************************)
\* most requests between their read and their commit
MaxWriters == 2

\* a request that has read: what it was sent and the rows it read
Writer(op, aas_id, submodel_id, new_data, new_metadata, template_ids, asset_record, sub_record) ==
    [op |-> op, aas_id |-> aas_id, submodel_id |-> submodel_id,
     new_data |-> new_data, new_metadata |-> new_metadata,
     template_ids |-> template_ids,
     asset_record |-> asset_record, sub_record |-> sub_record]

\* what a commit is recorded with: the request and the row it replaces
Committed(writer, replaced) == [writer |-> writer, replaced |-> replaced]

\* one update each: two that resolve to different nodes, one that resolves
\* nowhere and one whose text is no integer
WriterBatches ==
    {<<Update(<<"Nameplate", "/", "SerialNumber">>, Str("XYZ-1"))>>,
     <<Update(<<"Nameplate", "/", "ManufacturerName">>,
              List(<<[language |-> "fr", text |-> Str("ACME SA")]>>))>>,
     <<Update(<<"Nameplate", "/", "NoSuch">>, Str("XYZ-1"))>>,
     <<Update(<<"Nameplate", "/", "YearOfConstruction">>, Str("XYZ-1"))>>}

WriterTemplateIdLists == {<<T1>>, <<T2>>, <<T1, TUnknown>>}

ReadUpdateSubmodelData ==
    /\ Cardinality(in_flight) < MaxWriters
    /\ \E aas_id \in DOMAIN aas_asset, submodel_id \in DOMAIN aas_submodel :
        \E new_data \in WriterBatches :
            /\ in_flight' = in_flight \cup
                    {Writer("update_submodel_data", aas_id, submodel_id, new_data,
                            EmptyDict, <<>>, aas_asset[aas_id],
                            aas_submodel[submodel_id])}
            /\ UNCHANGED <<aas_asset, aas_submodel, uuid_seq, clock, result>>

WriteUpdateSubmodelData ==
    /\ clock < MaxClock
    /\ \E req \in in_flight :
        /\ req.op = "update_submodel_data"
        /\ \E r \in {update_submodel_data(req.asset_record, req.sub_record,
                        req.aas_id, req.submodel_id, req.new_data, aas_submodel,
                        clock + 1)} :
            /\ aas_submodel' = r.submodel
            /\ clock' = clock + 1
            /\ in_flight' = in_flight \ {req}
            /\ result' = Request("update_submodel_data",
                    Committed(req, session_get(aas_submodel, req.submodel_id)), r.ret)
            /\ UNCHANGED <<aas_asset, uuid_seq>>

ReadUpdateAasMetadata ==
    /\ Cardinality(in_flight) < MaxWriters
    /\ \E aas_id \in DOMAIN aas_asset, new_metadata \in MetadataChoices :
        /\ in_flight' = in_flight \cup
                {Writer("update_aas_metadata", aas_id, "", <<>>, new_metadata,
                        <<>>, aas_asset[aas_id], NoRecord)}
        /\ UNCHANGED <<aas_asset, aas_submodel, uuid_seq, clock, result>>

WriteUpdateAasMetadata ==
    /\ clock < MaxClock
    /\ \E req \in in_flight :
        /\ req.op = "update_aas_metadata"
        /\ \E r \in {update_asset_metadata(req.asset_record, req.aas_id,
                        req.new_metadata, aas_asset, aas_submodel, clock + 1)} :
            /\ aas_asset' = r.asset
            /\ aas_submodel' = r.submodel
            /\ clock' = clock + 1
            /\ in_flight' = in_flight \ {req}
            /\ result' = Request("update_aas_metadata",
                    Committed(req, session_get(aas_asset, req.aas_id)), r.ret)
            /\ UNCHANGED uuid_seq

ReadAttachSubmodels ==
    /\ Cardinality(in_flight) < MaxWriters
    /\ \E aas_id \in DOMAIN aas_asset, template_ids \in WriterTemplateIdLists :
        /\ in_flight' = in_flight \cup
                {Writer("attach_submodels", aas_id, "", <<>>, EmptyDict,
                        template_ids, aas_asset[aas_id], NoRecord)}
        /\ UNCHANGED <<aas_asset, aas_submodel, uuid_seq, clock, result>>

WriteAttachSubmodels ==
    /\ clock < MaxClock
    /\ \E req \in in_flight :
        /\ req.op = "attach_submodels"
        /\ \E r \in {attach_submodels_to_asset(req.asset_record, req.aas_id,
                        req.template_ids, aas_asset, aas_submodel, uuid_seq,
                        clock + 1)} :
            /\ aas_asset' = r.asset
            /\ aas_submodel' = r.submodel
            /\ uuid_seq' = r.n
            /\ clock' = clock + 1
            /\ in_flight' = in_flight \ {req}
            /\ result' = Request("attach_submodels",
                    Committed(req, session_get(aas_asset, req.aas_id)), r.ret)

NextWriters ==
    \/ ReadUpdateSubmodelData
    \/ WriteUpdateSubmodelData
    \/ ReadUpdateAasMetadata
    \/ WriteUpdateAasMetadata
    \/ ReadAttachSubmodels
    \/ WriteAttachSubmodels

SpecWriters == InitUpdate /\ [][NextWriters]_vars

(***************************************************************************)
(* C21 and C30: writers that overlap, checked under SpecWriters.            *)
(***************************************************************************)
\* what a request finds in the stored JSON it read: as Found, for a snapshot
FoundIn(data, batch) ==
    Bind(deserialize_aas_from_json(data), LAMBDA old :
    Bind(path_maps(old), LAMBDA maps :
    Bind([i \in 1..Len(batch) |-> node_of(maps, batch[i].path)], LAMBDA node :
        [old |-> old, maps |-> maps, node |-> node,
         converted |-> [i \in 1..Len(batch) |->
            IF node[i] = <<>> THEN Ok(Null)
            ELSE new_element_value(element_at(old.submodel_element, node[i][1]),
                                   batch[i].value)]])))

\* the last commit was that of a writer of the given operation
CommittedBy(op) == result.op = op /\ "writer" \in DOMAIN result.args

\* the row the writer read had been replaced by another writer's commit
\* before its own
ReadWasStale(row) == result.args.replaced # row

\* the shell the writer read references the submodel it writes
OwnedInOwnRead(writer) ==
    writer.submodel_id \in
        deserialize_aas_from_json(writer.asset_record.data).submodels

\* the stored submodel is what the writer's own updates make of the row it
\* read, and the writer is answered as the rows it read alone decide
SubmodelFromOwnRead ==
    \A writer \in {result.args.writer} :
    \A found \in {FoundIn(writer.sub_record.data, writer.new_data)} :
        /\ (result.ret.status = "ok") <=>
                (OwnedInOwnRead(writer) /\ failing(found) = {})
        /\ (result.ret.status = "ok" /\ resolved(found) # {}) =>
            /\ aas_submodel[writer.submodel_id].data = result.ret.value
            /\ SameExcept(deserialize_aas_from_json(
                            aas_submodel[writer.submodel_id].data),
                          found.old, values_after(found))

\* the stored shell is the shell the writer read with its own changes: the
\* metadata it was sent, or the references of the submodels it created
ShellFromOwnRead ==
    \A writer \in {result.args.writer} :
    \A old \in {deserialize_aas_from_json(writer.asset_record.data)},
       new \in {deserialize_aas_from_json(aas_asset[writer.aas_id].data)} :
        /\ result.ret.status = "ok" =>
            /\ aas_asset[writer.aas_id].data = result.ret.value
            /\ new.id = old.id
            /\ new.assetInformation.globalAssetId =
                    dict_get(writer.new_metadata, "global_asset_id",
                             old.assetInformation.globalAssetId)
            /\ new.description =
                    IF "description" \in DOMAIN writer.new_metadata
                    THEN <<LangString("en", writer.new_metadata["description"])>>
                    ELSE old.description
            /\ new.displayName =
                    IF "display_name" \in DOMAIN writer.new_metadata
                    THEN <<LangString("en", writer.new_metadata["display_name"])>>
                    ELSE old.displayName
            /\ old.submodels \subseteq new.submodels
            /\ \A S \in new.submodels \ old.submodels :
                    /\ writer.op = "attach_submodels"
                    /\ S \in DOMAIN aas_submodel
                    /\ aas_submodel[S].created_at = clock
        /\ writer.op = "update_aas_metadata" => result.ret.status = "ok"

\* C21: when two writers of the same submodel, or of the same shell, have
\* both read before either commits, neither is rejected for it, and the row
\* stored after the later commit is exactly what that writer computed from
\* the row it read: what the earlier committer changed and the later one did
\* not touch is lost.
C21_LastCommitterWins ==
    /\ CommittedBy("update_submodel_data") => SubmodelFromOwnRead
    /\ (CommittedBy("update_aas_metadata") \/ CommittedBy("attach_submodels")) =>
            ShellFromOwnRead

\* the value stored for the SerialNumber of a Nameplate row
serial_number_in(row) ==
    LET elements == row.data.submodelElements
        i == CHOOSE i \in 1..Len(elements) : elements[i].idShort = "SerialNumber"
    IN  elements[i].value

\* two writers read the Nameplate as it was created; the first set the
\* SerialNumber and committed, the second set the ManufacturerName and
\* committed: the row stored now has the SerialNumber both had read
C21_Witness ==
    /\ CommittedBy("update_submodel_data")
    /\ result.ret.status = "ok"
    /\ ReadWasStale(result.args.writer.sub_record)
    /\ result.args.writer.new_data[1].path = <<"Nameplate", "/", "ManufacturerName">>
    /\ serial_number_in(result.args.replaced) = Str("XYZ-1")
    /\ serial_number_in(result.args.writer.sub_record) # Str("XYZ-1")
    /\ serial_number_in(aas_submodel[result.args.writer.submodel_id])
            = serial_number_in(result.args.writer.sub_record)

\* C30: when two attach-submodels requests on the same shell have both read
\* the shell before either commits, after both have committed every submodel
\* record created by either request is referenced by the stored shell: no
\* stored submodel is left without an owning shell.
C30_InterleavedAttachOwnsAll ==
    (/\ CommittedBy("attach_submodels")
     /\ result.ret.status = "ok"
     /\ in_flight = {}
     /\ result.args.writer.asset_record.data.submodels
            # result.args.replaced.data.submodels) =>
        \A S \in DOMAIN aas_submodel :
            \E a \in DOMAIN aas_asset : S \in references(aas_asset, a)

(***************************************************************************)
(* C29: requests that fail, checked under Spec.                             *)
(***************************************************************************)
\* the operations that write to the tables
WritingOps ==
    {"create_aas", "update_aas_metadata", "update_submodel_data",
     "attach_submodels", "remove_submodel", "delete_aas"}

\* C29: a request that ends in an error (unknown asset id, a template id the
\* catalog does not hold, a submodel id the asset does not reference) leaves
\* both tables exactly as they were: a batch of template ids with one unknown
\* id stores nothing for the known ones, and a detach with an id the shell
\* does not reference deletes no submodel row.
C29_FailedRequestChangesNothing ==
    [][(\E op \in WritingOps : Completes(op)) /\ result'.ret.status # "ok" =>
            /\ aas_asset' = aas_asset
            /\ aas_submodel' = aas_submodel]_vars

\* a detach named a submodel that another shell owns and was refused, and
\* the submodel is still stored
C29_Witness ==
    /\ result.op = "remove_submodel"
    /\ result.ret.status = "ValueError"
    /\ result.args.aas_id \in DOMAIN aas_asset
    /\ result.args.submodel_id \in DOMAIN aas_submodel
    /\ result.args.submodel_id \notin references(aas_asset, result.args.aas_id)

\* an attach with a known and an unknown template id was refused on a stored
\* shell, and the shell references what it did before
C29_WitnessBatch ==
    /\ result.op = "attach_submodels"
    /\ result.ret.status = "ValueError"
    /\ result.args.template_ids = <<T1, TUnknown>>
    /\ result.args.aas_id \in DOMAIN aas_asset
    /\ references(aas_asset, result.args.aas_id) \subseteq DOMAIN aas_submodel

(***************************************************************************)
(* The codec alone.  SpecCodec starts with a stored submodel that has just  *)
(* been loaded and then stores and loads it in turn, as every request that  *)
(* rewrites a row does with the nodes it does not touch.                    *)
(***************************************************************************)
\* most top-level elements of a stored submodel, and most children of a list
MaxElements == 2

\* valid leaves: a Property without a value, texts of every value type (one
\* integer text with leading zeros), language lists in two orders, a File
CodecLeaves(idShort) ==
    {Property(idShort, "xs:string", Null),
     Property(idShort, "xs:string", Str("a")),
     Property(idShort, "xs:integer", Str("007")),
     Property(idShort, "xs:integer", Str("2020")),
     Property(idShort, "xs:boolean", Str("true")),
     MultiLanguageProperty(idShort,
        Langs(<<LangString("en", "ACME"), LangString("de", "ACME GmbH")>>)),
     MultiLanguageProperty(idShort,
        Langs(<<LangString("de", "ACME GmbH"), LangString("en", "ACME")>>)),
     File(idShort, Str("/aasx/logo.png"))}

\* the children of a list carry no idShort and are all of one kind
CodecListChildren ==
    {Property(Absent, "xs:string", Str("a")), Property(Absent, "xs:string", Str("b"))}

CodecElements(idShort) ==
    CodecLeaves(idShort)
    \cup {SubmodelElementCollection(idShort, <<leaf>>) : leaf \in CodecLeaves("Inner")}
    \cup {SubmodelElementList(idShort, children) :
            children \in SeqsUpTo(CodecListChildren, MaxElements) \ {<<>>}}

CodecIdShorts == [i \in 1..(MaxElements + 1) |-> "E" \o ToString(i)]

CodecSubmodels ==
    {Submodel(generate_id(1), "Nameplate", "Instance", NoAdministration, elements) :
        elements \in {es \in SeqsUpTo(UNION {CodecElements(CodecIdShorts[i]) :
                                        i \in 1..MaxElements}, MaxElements) :
                        /\ es # <<>>
                        /\ \A i \in 1..Len(es) : es[i].idShort = CodecIdShorts[i]}}

InitCodec ==
    /\ aas_asset = EmptyTable
    /\ aas_submodel = EmptyTable
    /\ uuid_seq = 1
    /\ clock = 1
    /\ in_flight = {}
    /\ \E json_string \in CodecSubmodels :
            result = Request("deserialize_aas_from_json",
                        [json_string |-> json_string],
                        Returned(deserialize_aas_from_json(json_string)))

\* the tree that was loaded is stored
SerializeAas ==
    /\ result.op = "deserialize_aas_from_json"
    /\ result' = Request("serialize_aas_to_json",
                    [aas_instance |-> result.ret.value,
                     loaded_from |-> result.args.json_string],
                    Returned(serialize_aas_to_json(result.ret.value)))
    /\ UNCHANGED <<aas_asset, aas_submodel, uuid_seq, clock, in_flight>>

\* the form that was stored is loaded
DeserializeAas ==
    /\ result.op = "serialize_aas_to_json"
    /\ result' = Request("deserialize_aas_from_json",
                    [json_string |-> result.ret.value],
                    Returned(deserialize_aas_from_json(result.ret.value)))
    /\ UNCHANGED <<aas_asset, aas_submodel, uuid_seq, clock, in_flight>>

NextCodec ==
    \/ SerializeAas
    \/ DeserializeAas

SpecCodec == InitCodec /\ [][NextCodec]_vars

\* two nodes in memory with the same content.  The id_short of a list child
\* is generated at every load and is no part of the stored form: list
\* children are compared by their position
RECURSIVE same_node(_, _, _)
same_node(a, b, parent_is_list) ==
    /\ a.modelType = b.modelType
    /\ parent_is_list \/ a.id_short = b.id_short
    /\ a.value_type = b.value_type
    /\ a.value = b.value
    /\ Len(a.children) = Len(b.children)
    /\ \A i \in 1..Len(a.children) :
            same_node(a.children[i], b.children[i],
                      a.modelType = "SubmodelElementList")

same_tree(a, b) ==
    /\ a.id = b.id /\ a.id_short = b.id_short
    /\ Len(a.submodel_element) = Len(b.submodel_element)
    /\ \A i \in 1..Len(a.submodel_element) :
            same_node(a.submodel_element[i], b.submodel_element[i], FALSE)

\* the value a stored node stands for
stored_value(e) ==
    IF e.modelType = "Property" /\ e.value # Null
    THEN from_xsd(e.value.s, XSD_TYPE_CLASSES[e.valueType])
    ELSE e.value

\* two stored nodes that stand for the same content
RECURSIVE same_stored_node(_, _)
same_stored_node(a, b) ==
    /\ a.modelType = b.modelType
    /\ a.idShort = b.idShort
    /\ a.valueType = b.valueType
    /\ stored_value(a) = stored_value(b)
    /\ Len(a.children) = Len(b.children)
    /\ \A i \in 1..Len(a.children) : same_stored_node(a.children[i], b.children[i])

same_stored_form(a, b) ==
    /\ a.id = b.id /\ a.idShort = b.idShort
    /\ Len(a.submodelElements) = Len(b.submodelElements)
    /\ \A i \in 1..Len(a.submodelElements) :
            same_stored_node(a.submodelElements[i], b.submodelElements[i])

last_segment(path) == str_split(path, "/")[Len(str_split(path, "/"))]

\* the entries of the element map, in tree-walk order, whose canonical path
\* ends in "/" and the last segment of the supplied path
ending_in_last_segment(maps, path) ==
    SelectSeq(maps.element_map,
        LAMBDA kv : str_endswith(kv[1], <<"/">> \o last_segment(path)))

\* strategies 1 to 4 find no node for the path
unresolved_by_maps(maps, path) ==
    /\ direct_lookup(maps, path) = <<>>
    /\ simplified_lookup(maps, path) = <<>>
    /\ full_lookup(maps, path) = <<>>
    /\ normalized_lookup(maps, path) = <<>>

\* the request of one update has set the first node whose canonical path ends
\* in the last segment of the update's path
SetsFirstOfBasename(S, update, found) ==
    \A hit \in {ending_in_last_segment(found.maps, update.path)[1][2]} :
    \A converted \in {new_element_value(element_at(found.old.submodel_element, hit),
                                        update.value)} :
        converted.ok =>
            /\ result'.ret.status = "ok"
            /\ element_at(deserialize_aas_from_json(aas_submodel'[S].data)
                            .submodel_element, hit).value = converted.v

\* C23 as stated: a supplied path of any number of segments that strategies 1
\* to 4 do not resolve, and whose last segment ends some canonical path, sets
\* the first such node in tree-walk order.
C23_BasenameOfAnyPath ==
    [][(Completes("update_submodel_data")
            /\ Admitted(result'.args.aas_id, result'.args.submodel_id)
            /\ Len(result'.args.new_data) = 1) =>
        \A S \in {result'.args.submodel_id}, update \in {result'.args.new_data[1]} :
        \A found \in {Found(S, <<update>>)} :
            (/\ unresolved_by_maps(found.maps, update.path)
             /\ ending_in_last_segment(found.maps, update.path) # <<>>)
            => SetsFirstOfBasename(S, update, found)]_vars

\* C23: a supplied path of two segments or more (one that holds a "/") that
\* strategies 1 to 4 do not resolve, and whose last segment ends some
\* canonical path, sets the first such node in tree-walk order; a supplied
\* path without "/" is not matched by its basename.
C23_BasenameOfLongerPath ==
    [][(Completes("update_submodel_data")
            /\ Admitted(result'.args.aas_id, result'.args.submodel_id)
            /\ Len(result'.args.new_data) = 1) =>
        \A S \in {result'.args.submodel_id}, update \in {result'.args.new_data[1]} :
        \A found \in {Found(S, <<update>>)} :
            (/\ unresolved_by_maps(found.maps, update.path)
             /\ ending_in_last_segment(found.maps, update.path) # <<>>
             /\ str_contains(update.path, "/"))
            => SetsFirstOfBasename(S, update, found)]_vars

\* an update by a path of three segments, which no map holds, has set the
\* first node whose canonical path ends in its last segment, and a later node
\* with that ending keeps another value
C23_Witness ==
    /\ result.op = "update_submodel_data"
    /\ result.ret.status = "ok"
    /\ Len(result.args.new_data) = 1
    /\ aas_submodel[result.args.submodel_id].data = result.ret.value
    /\ aas_submodel[result.args.submodel_id].updated_at = clock
    /\ \E update \in {result.args.new_data[1]} :
       \E tree \in {deserialize_aas_from_json(result.ret.value)} :
       \E maps \in {path_maps(tree)} :
       \E hits \in {ending_in_last_segment(maps, update.path)} :
            /\ Len(str_split(update.path, "/")) = 3
            /\ unresolved_by_maps(maps, update.path)
            /\ Len(hits) = 2
            /\ element_at(tree.submodel_element, hits[1][2]).value = update.value
            /\ element_at(tree.submodel_element, hits[2][2]).value # update.value

(***************************************************************************)
(* The generic projection alone.  SpecProject starts with one stored        *)
(* submodel that holds elements of every kind, alone and nested in a        *)
(* collection, a list or an entity, and projects it.                        *)
(***************************************************************************)
ProjectionLeaves ==
    {Property("Prop", "xs:string", Str("a")),
     Property("Empty", "xs:string", Null),
     MultiLanguageProperty("Name", Langs(<<LangString("en", "ACME")>>)),
     File("Logo", Str("/aasx/logo.png")),
     ReferenceElement("Ref", Str("urn:ref:1")),
     RangeElement("Tolerance", "xs:integer", Str("1"), Str("2")),
     Blob("Image", "image/png", Str("QUJD"))}

\* a collection or an entity around one element, a list of one or two
\* children (which carry no idShort), an entity without statements
ProjectionContainers(group, part, inner) ==
    {SubmodelElementCollection(group, <<child>>) : child \in inner}
    \cup {Entity(part, "SelfManagedEntity", <<child>>) : child \in inner}
    \cup {Entity(part, "SelfManagedEntity", <<>>),
          SubmodelElementList("Items", <<Property(Absent, "xs:string", Str("a"))>>),
          SubmodelElementList("Items", <<Property(Absent, "xs:string", Str("a")),
                                         Property(Absent, "xs:string", Null)>>)}

ProjectionElements ==
    ProjectionLeaves
    \cup ProjectionContainers("Group", "Part", ProjectionLeaves)
    \cup ProjectionContainers("Outer", "Assembly",
            ProjectionContainers("Group", "Part", ProjectionLeaves))

\* one element, or one element and a leaf of another name
ProjectionSubmodels ==
    {Submodel(generate_id(2), "Generic", "Instance",
              AdministrativeInformation("1", Absent), elements) :
        elements \in {<<e>> : e \in ProjectionElements}
            \cup {<<e, leaf>> : e \in ProjectionElements, leaf \in ProjectionLeaves}}

InitProject ==
    /\ aas_asset = EmptyTable
    /\ \E submodel \in {sm \in ProjectionSubmodels :
            \A i, j \in 1..Len(sm.submodelElements) :
                i # j => sm.submodelElements[i].idShort # sm.submodelElements[j].idShort} :
        aas_submodel = (submodel.id :> Record(submodel.id, submodel, 1, 1))
    /\ uuid_seq = 2
    /\ clock = 1
    /\ result = Request("none", Null, Returned(Null))
    /\ in_flight = {}

ProcessSubmodel ==
    /\ Unanswered
    /\ \E id \in DOMAIN aas_submodel :
        result' = Request("process_submodel", [submodel |-> aas_submodel[id].data],
                    Returned(process_submodel(aas_submodel[id].data)))
    /\ UNCHANGED <<aas_asset, aas_submodel, uuid_seq, clock, in_flight>>

NextProject == ProcessSubmodel

SpecProject == InitProject /\ [][NextProject]_vars

\* the projected children of a projected node: the elements of a collection
\* or a list, the statements of an entity
children_out(out) ==
    IF "elements" \in DOMAIN out.d
    THEN IF out.d["elements"].t = "dict" THEN Range(out.d["elements"].d)
         ELSE Range(out.d["elements"].l)
    ELSE IF "statements" \in DOMAIN out.d THEN Range(out.d["statements"].l)
    ELSE {}

\* a projected node and all below it carry an idShort, and none of them is a
\* container of one of the kinds with no child
RECURSIVE pruned(_, _)
pruned(out, kinds) ==
    /\ "idShort" \in DOMAIN out.d
    /\ out.d["idShort"] \notin {Null, Str(Absent), Str("")}
    /\ out.d["modelType"] \in {Str(kind) : kind \in kinds} => children_out(out) # {}
    /\ \A child \in children_out(out) : pruned(child, kinds)

\* C24 as stated: no node without idShort and no Collection, List or Entity
\* without surviving children appears in the projected elements.
C24_NoEmptyContainer ==
    result.op = "process_submodel" =>
        \A out \in Range(result.ret.value.d["elements"].d) :
            pruned(out, {"SubmodelElementCollection", "SubmodelElementList", "Entity"})

\* C24: no node without idShort and no Collection or List without surviving
\* children appears in the projected elements; an Entity is kept, without a
\* statements entry, when none of its statements survives.
C24_NoEmptyCollectionOrList ==
    result.op = "process_submodel" =>
        \A out \in Range(result.ret.value.d["elements"].d) :
            /\ pruned(out, {"SubmodelElementCollection", "SubmodelElementList"})
            /\ (out.d["modelType"] = Str("Entity") /\ children_out(out) = {})
                    => "statements" \notin DOMAIN out.d

\* a submodel of a leaf and a collection whose only child is a collection of
\* a Property without a value has been projected to the leaf alone
C24_Witness ==
    /\ result.op = "process_submodel"
    /\ \E e \in Range(result.args.submodel.submodelElements) :
        /\ e.modelType = "SubmodelElementCollection"
        /\ e.children # <<>>
        /\ e.children[1].modelType = "SubmodelElementCollection"
        /\ e.children[1].children # <<>>
        /\ e.idShort \notin DOMAIN result.ret.value.d["elements"].d
    /\ DOMAIN result.ret.value.d["elements"].d # {}

\* the payload of a stored element: the value of a leaf, for a container a
\* child with an idShort and a payload
RECURSIVE has_payload(_)
has_payload(e) ==
    CASE e.modelType = "MultiLanguageProperty" ->
            /\ e.value # Null
            /\ \E i \in 1..Len(e.value.l) :
                    e.value.l[i].language # "" /\ e.value.l[i].text # ""
      [] e.modelType = "File" -> e.value \notin {Null, Str("")}
      [] e.modelType = "Range" -> e.min # Null \/ e.max # Null
      [] e.modelType \in {"SubmodelElementCollection", "SubmodelElementList", "Entity"} ->
            \E i \in 1..Len(e.children) :
                e.children[i].idShort # Absent /\ has_payload(e.children[i])
      [] OTHER -> e.value # Null

\* the element is among the projected children of its parent, and so is,
\* below it, every element with an idShort and a payload
RECURSIVE kept_in(_, _)
kept_in(e, siblings_out) ==
    \E out \in siblings_out :
        /\ out.d["idShort"] = Str(e.idShort)
        /\ \A i \in 1..Len(e.children) :
                (e.children[i].idShort # Absent /\ has_payload(e.children[i]))
                    => kept_in(e.children[i], children_out(out))

\* C25: every element with an idShort and a payload is in the projection,
\* whatever its kind and whether its parent is the submodel, a collection, a
\* list or an entity.
C25_EveryKindSurvivesEverywhere ==
    result.op = "process_submodel" =>
        \A e \in Range(result.args.submodel.submodelElements) :
            (e.idShort # Absent /\ has_payload(e))
                => kept_in(e, Range(result.ret.value.d["elements"].d))

(***************************************************************************)
(* C26: named fields and additionalData.                                    *)
(***************************************************************************)
\* the template of the submodel a processor projects
target_template ==
    ("identification" :> SubmodelIdentifiers.NAMEPLATE)
    @@ ("compliance" :> SubmodelIdentifiers.NAMEPLATE)
    @@ ("technical" :> SubmodelIdentifiers.TECHNICAL_DATA)
    @@ ("sustainability" :> SubmodelIdentifiers.CARBON_FOOTPRINT)

\* a processor has returned a view of its target submodel
Viewed(section_ids) ==
    /\ result.op = "process"
    /\ result.args.section_id \in section_ids
    /\ result.ret.ok
    /\ result.ret.v # Null

\* the top-level elements of the target submodel that survive the generic
\* projection, by idShort
surviving_elements ==
    process_submodel(get_submodel(BaseDPPSection(result.args.found.value),
                        target_template[result.args.section_id])).d["elements"].d

\* every value inside a JSON value
RECURSIVE values_in(_)
values_in(v) ==
    {v} \cup (CASE v.t = "dict" -> UNION {values_in(v.d[k]) : k \in DOMAIN v.d}
                [] v.t = "list" -> UNION {values_in(v.l[i]) : i \in 1..Len(v.l)}
                [] OTHER -> {})

\* the values a projected element carries, at any depth
RECURSIVE payloads(_)
payloads(out) ==
    (IF "value" \in DOMAIN out.d THEN {out.d["value"]} ELSE {})
    \cup UNION {payloads(child) : child \in children_out(out)}

\* a value of the element is in the view outside additionalData
in_named_fields(out, data) ==
    payloads(out) \cap values_in(without(data, {"additionalData"})) # {}

\* the element is an entry of additionalData
in_additional_data(key, data) ==
    key \in DOMAIN get2(data, "additionalData", "elements", Dict(EmptyDict)).d

ExactlyOneOf(a, b) == (a \/ b) /\ ~(a /\ b)

MaxObjects == 3

\* the recursion limit of the interpreter: deeper than every entity tree
RecursionLimit == MaxObjects + 2

Objects == 1..MaxObjects

\* the members of a set of objects, by identity
by_identity(S) ==
    CHOOSE seq \in [1..Cardinality(S) -> S] :
        /\ Range(seq) = S
        /\ \A i, j \in 1..Cardinality(S) : i < j => seq[i] < seq[j]

\* every heap whose entities have at most two statements, which are entities
EntityHeaps ==
    [Objects -> {[idShort |-> "Part", statements |-> by_identity(S)] :
                    S \in {S \in SUBSET Objects : Cardinality(S) <= 2}}]

EntryNode == 1

\* the objects reachable from an object along statements
RECURSIVE reachable_from(_, _, _)
reachable_from(heap, frontier, seen) ==
    IF frontier \subseteq seen THEN seen
    ELSE reachable_from(heap,
            UNION {Range(heap[obj].statements) : obj \in frontier},
            seen \cup frontier)

\* an entity reachable from the entry node is reachable from itself
cyclic(heap) ==
    \E obj \in reachable_from(heap, {EntryNode}, {}) :
        obj \in reachable_from(heap, Range(heap[obj].statements), {})

\* the stored form of the entity tree below an object, read to a depth; no
\* tree when the depth does not reach its leaves
RECURSIVE entity_tree(_, _, _)
entity_tree(heap, obj, depth) ==
    IF depth = 0 THEN <<>>
    ELSE Bind([i \in 1..Len(heap[obj].statements) |->
                    entity_tree(heap, heap[obj].statements[i], depth - 1)],
           LAMBDA below :
                IF \E i \in 1..Len(below) : below[i] = <<>> THEN <<>>
                ELSE <<Entity(heap[obj].idShort, "SelfManagedEntity",
                              [i \in 1..Len(below) |-> below[i][1]])>>)

\* process_entity on an object: it calls itself for every Entity statement
\* and keeps no record of the objects it has entered, so it returns on a tree
\* and exceeds the recursion limit on an entity reachable from itself
process_entity_of_object(heap, obj) ==
    Bind(entity_tree(heap, obj, RecursionLimit), LAMBDA tree :
        IF tree = <<>>
        THEN Raised("RecursionError", "maximum recursion depth exceeded", <<>>)
        ELSE Returned(process_entity(tree[1])))

\* MaterialSection._process_entity_structure on an object.  visited_nodes is
\* one set, shared by all calls of a traversal; the result is the structure
\* and the set as the call leaves it
RECURSIVE process_entity_structure(_, _, _)
RECURSIVE process_statements(_, _, _, _)
process_entity_structure(heap, obj, visited_nodes) ==
    LET node_id == <<heap[obj].idShort, obj>>
    IN  IF node_id \in visited_nodes
        THEN [structure |-> Dict(("id" :> Str(heap[obj].idShort))
                                 @@ ("type" :> Str("Reference"))),
              visited_nodes |-> visited_nodes]
        ELSE Bind(process_statements(heap, heap[obj].statements, <<>>,
                                     visited_nodes \cup {node_id}),
               LAMBDA done :
                [structure |-> Dict(("id" :> Str(heap[obj].idShort))
                                    @@ ("type" :> Str("SelfManagedEntity"))
                                    @@ ("components" :> List(done.components))
                                    @@ ("modelType" :> Str("Entity"))),
                 visited_nodes |-> done.visited_nodes])

\* the loop over the statements: every Entity statement is processed with the
\* set the statements before it have left
process_statements(heap, statements, components, visited_nodes) ==
    IF statements = <<>>
    THEN [components |-> components, visited_nodes |-> visited_nodes]
    ELSE Bind(process_entity_structure(heap, statements[1], visited_nodes),
           LAMBDA component :
                process_statements(heap, Tail(statements),
                    Append(components, component.structure),
                    component.visited_nodes))

InitEntity ==
    /\ aas_asset = EmptyTable
    /\ aas_submodel = EmptyTable
    /\ uuid_seq = 1
    /\ clock = 1
    /\ in_flight = {}
    /\ \E heap \in EntityHeaps :
            result = Request("none", [heap |-> heap], Returned(Null))

ProcessEntityStructure ==
    /\ Unanswered
    /\ result' = Request("_process_entity_structure", result.args,
                    Returned(process_entity_structure(result.args.heap, EntryNode, {})
                                .structure))
    /\ UNCHANGED <<aas_asset, aas_submodel, uuid_seq, clock, in_flight>>

ProcessEntity ==
    /\ Unanswered
    /\ result' = Request("process_entity", result.args,
                    process_entity_of_object(result.args.heap, EntryNode))
    /\ UNCHANGED <<aas_asset, aas_submodel, uuid_seq, clock, in_flight>>

NextEntity ==
    \/ ProcessEntityStructure
    \/ ProcessEntity

SpecEntity == InitEntity /\ [][NextEntity]_vars

\* the structures below a structure, itself included
RECURSIVE structures_in(_)
structures_in(structure) ==
    {structure}
    \cup (IF "components" \in DOMAIN structure.d
          THEN UNION {structures_in(structure.d["components"].l[i]) :
                        i \in 1..Len(structure.d["components"].l)}
          ELSE {})

\* an entity that was entered before is in the structure as a reference
has_reference_marker(structure) ==
    \E part \in structures_in(structure) :
        /\ part.d["type"] = Str("Reference")
        /\ "components" \notin DOMAIN part.d

C27_StructureStopsAtRevisit ==
    result.op = "_process_entity_structure" =>
        /\ result.ret.status = "ok"
        /\ cyclic(result.args.heap) => has_reference_marker(result.ret.value)

(***************************************************************************)
(* C28: the listing and the fetch of a section.                             *)
(***************************************************************************)
\* the ids of the sections the listing of the stored asset reports as
\* available
listed_available(aas_id) ==
    UNION {listed_as(sections.value, STATUS_AVAILABLE) :
            sections \in {get_dpp_sections(found) :
                            found \in found_assets(aas_id, aas_asset, aas_submodel)}}

\* C28: fetching a section that the listing of the same stored asset reports
\* as available returns a section view, through the route and through the
\* service function alike.
C28_ListedSectionIsFetched ==
    (/\ result.op \in {"get_dpp_section", "services.get_dpp_section"}
     /\ result.args.aas_id \in DOMAIN aas_asset
     /\ result.args.section_id \in listed_available(result.args.aas_id)) =>
        /\ result.ret.status = "ok"
        /\ result.ret.value # Null

\* what holds of the service function called as it is declared, for the
\* sections other than business and materials: a listed section is fetched
C28_ListedSectionIsFetchedByService ==
    (/\ result.op = "services.get_dpp_section"
     /\ result.args.aas_id \in DOMAIN aas_asset
     /\ result.args.section_id \in
            listed_available(result.args.aas_id) \ {"business", "materials"}) =>
        /\ result.ret.status = "ok"
        /\ result.ret.value # Null

====
